---- MODULE Spec2Model ----
(***************************************************************************)
(* Model of the specification-driven LoadData generator                    *)
(* (pcpip/scripts/load_data_generate_v2.py, load_data_models.py).          *)
(*                                                                         *)
(* Text is a sequence of symbols.  The symbols "{", "}" and ":02d" are the *)
(* pieces of a placeholder, a variable name or a word of literal text is   *)
(* one symbol, a decimal digit is one symbol, "," and "/" separate the     *)
(* items of a channel list and the segments of a path.                     *)
(* A Python value is a tagged record: I(n) an int, S(s) a str, NoneV.      *)
(* A Python dict is a sequence of <<key, value>> pairs in insertion order. *)
(***************************************************************************)
EXTENDS Integers, Sequences, FiniteSets, TLC

VARIABLES
    spec,            \* the loaded LoadDataSpec (LoadDataGenerator.spec)
    samplesheet_df,  \* the sample table: [columns, rows]
    pipeline_ids,    \* main(): the pipeline ids still to generate
    pipeline_id,     \* generate_pipeline(): the id being generated
    pc,              \* position in main() / generate_pipeline() / a strategy
    strategy,        \* the strategy generate_pipeline() dispatched to
    filtered_df,     \* generate_pipeline(): the filtered sample rows
    work,            \* the strategy's outer loop: items still to process
    template_vars,   \* the current row's variable scope
    data,            \* the row under construction
    rows,            \* generate_pipeline(): the rows appended so far
    exc,             \* the exception in flight, "" when none
    outputs,         \* main(): per pipeline, the table returned or the error
    call,            \* a direct call of one function: its arguments
    ret              \* and what it returned

vars == <<spec, samplesheet_df, pipeline_ids, pipeline_id, pc, strategy,
          filtered_df, work, template_vars, data, rows, exc, outputs, call, ret>>

(***************************************************************************)
(* Python values and exceptions                                            *)
(***************************************************************************)
I(n) == [t |-> "int", v |-> n]
S(s) == [t |-> "str", v |-> s]
NoneV == [t |-> "none", v |-> 0]
EmptyStr == S(<<>>)

Ok(x) == [ok |-> TRUE, v |-> x]
Raise(e) == [ok |-> FALSE, v |-> e]

\* r, then F on its value: an exception ends the computation
Then(r, F(_)) == IF r.ok THEN F(r.v) ELSE r

LB == "{"
RB == "}"
FMT == ":02d"

Digits == <<"0", "1", "2", "3", "4", "5", "6", "7", "8", "9">>

IsDigit(c) == \E i \in 1..10 : Digits[i] = c

DigitVal(c) == (CHOOSE i \in 1..10 : Digits[i] = c) - 1

RECURSIVE NatToStr(_)
NatToStr(n) ==
    IF n < 10 THEN <<Digits[n + 1]>>
    ELSE NatToStr(n \div 10) \o <<Digits[(n % 10) + 1]>>

\* str(n) of an int
IntToStr(n) == IF n < 0 THEN <<"-">> \o NatToStr(0 - n) ELSE NatToStr(n)

RECURSIVE StrToNat(_)
StrToNat(s) ==
    IF Len(s) = 0 THEN 0
    ELSE 10 * StrToNat(SubSeq(s, 1, Len(s) - 1)) + DigitVal(s[Len(s)])

\* str(val)
PyStr(val) ==
    CASE val.t = "int" -> IntToStr(val.v)
      [] val.t = "str" -> val.v
      [] OTHER -> <<"None">>

\* int(val): an int is itself, a str of decimal digits is parsed, any other
\* str raises ValueError, None raises TypeError
PyInt(val) ==
    IF val.t = "int" THEN Ok(val.v)
    ELSE IF val.t = "str"
         THEN IF Len(val.v) > 0 /\ \A i \in 1..Len(val.v) : IsDigit(val.v[i])
              THEN Ok(StrToNat(val.v))
              ELSE Raise("ValueError")
         ELSE Raise("TypeError")

\* bool(val): None, "" and 0 are false
Truthy(val) ==
    CASE val.t = "none" -> FALSE
      [] val.t = "str" -> Len(val.v) > 0
      [] val.t = "int" -> val.v # 0
      [] OTHER -> TRUE

\* a two-character field that cuts what does not fit
Fmt02dShort(n) ==
    LET s == IntToStr(n)
    IN  IF Len(s) >= 2 THEN SubSeq(s, 1, 2)
        ELSE <<"0">> \o s

\* f"{n:02d}": at least two characters, zero-padded, never truncated
Fmt02d(n) ==
    LET s == IntToStr(n)
    IN  IF Len(s) >= 2 THEN s
        ELSE <<"0">> \o s

\* sub in s
Contains(s, sub) ==
    \E i \in 1..(Len(s) - Len(sub) + 1) : SubSeq(s, i, i + Len(sub) - 1) = sub

\* s.replace(old, new): every non-overlapping occurrence, left to right
RECURSIVE Replace(_, _, _)
Replace(s, old, new) ==
    IF Len(s) < Len(old) THEN s
    ELSE IF SubSeq(s, 1, Len(old)) = old
         THEN new \o Replace(SubSeq(s, Len(old) + 1, Len(s)), old, new)
         ELSE <<Head(s)>> \o Replace(Tail(s), old, new)

\* s.split(sep) for a one-symbol separator
RECURSIVE Split(_, _)
Split(s, sep) ==
    IF \A i \in 1..Len(s) : s[i] # sep THEN <<s>>
    ELSE LET i == CHOOSE j \in 1..Len(s) :
                      s[j] = sep /\ \A k \in 1..(j - 1) : s[k] # sep
         IN  <<SubSeq(s, 1, i - 1)>> \o Split(SubSeq(s, i + 1, Len(s)), sep)

\* list.index(x): the first position (0-based), ValueError when absent
ListIndex(list, x) ==
    IF \E i \in 1..Len(list) : list[i] = x
    THEN Ok((CHOOSE i \in 1..Len(list) :
                list[i] = x /\ \A k \in 1..(i - 1) : list[k] # x) - 1)
    ELSE Raise("ValueError")

(***************************************************************************)
(* dicts in insertion order                                                *)
(***************************************************************************)
DictHas(d, k) == \E i \in 1..Len(d) : d[i][1] = k

DictGet(d, k) == d[CHOOSE i \in 1..Len(d) : d[i][1] = k][2]

\* d.get(k, default)
DictGetOr(d, k, default) == IF DictHas(d, k) THEN DictGet(d, k) ELSE default

\* d[k] = v: an existing key keeps its position, a new key goes last
DictSet(d, k, v) ==
    IF DictHas(d, k)
    THEN [i \in 1..Len(d) |-> IF d[i][1] = k THEN <<k, v>> ELSE d[i]]
    ELSE Append(d, <<k, v>>)

\* {**d, **e}
RECURSIVE DictMerge(_, _)
DictMerge(d, e) ==
    IF Len(e) = 0 THEN d
    ELSE DictMerge(DictSet(d, e[1][1], e[1][2]), Tail(e))

\* a pandas row (Series): a function from the table's columns to values
RowHas(row, field) == field \in DOMAIN row

\* row.get(field, default)
RowGetOr(row, field, default) ==
    IF RowHas(row, field) THEN row[field] ELSE default

(***************************************************************************)
(* load_data_models.py: ColumnDefinition, LoadDataSpec, load_spec          *)
(***************************************************************************)
\* ColumnDefinition(name, source, pattern, value, expression) with the
\* field defaults of the model class (None)
ColumnDefinition(name, source, pattern, value, expression) ==
    [name |-> name, source |-> source, pattern |-> pattern,
     value |-> value, expression |-> expression]

Src(name, field) == ColumnDefinition(name, S(<<field>>), NoneV, NoneV, NoneV)
Pat(name, pattern) == ColumnDefinition(name, NoneV, S(pattern), NoneV, NoneV)
Val(name, value) == ColumnDefinition(name, NoneV, NoneV, value, NoneV)
Expr(name, expression) ==
    ColumnDefinition(name, NoneV, NoneV, NoneV, S(expression))

\* the number of resolution modes a ColumnDefinition sets (is not None)
ModesSet(col_def) ==
    Cardinality({f \in {"source", "pattern", "value", "expression"} :
                    col_def[f] # NoneV})

\* ColumnDefinition.name_not_empty
NameNotEmpty(col_def) == col_def.name # <<>>

\* ColumnDefinition.model_post_init: rejects only "all four are None"
ModelPostInit(col_def) ==
    ~ (\A f \in {"source", "pattern", "value", "expression"} :
            col_def[f] = NoneV)

NoGroup == [t |-> "none"]

IsGroup(g) == g.t = "group"

\* PerChannelColumns / PerCyclePerChannelColumns (special_rules: a dict,
\* empty when None: the code reads it as "special_rules or {}")
Group(channels, columns, special_rules) ==
    [t |-> "group", channels |-> channels, columns |-> columns,
     special_rules |-> special_rules]

\* BarcodingChannels / BarcodingDNA / PaintingChannels
FixedGroup(cycles, channels, columns) ==
    [t |-> "group", cycles |-> cycles, channels |-> channels,
     columns |-> columns]

GroupFields == {"per_channel", "per_channel_orig", "per_channel_illum",
                "per_cycle_per_channel", "per_cycle_per_channel_orig",
                "per_cycle_per_channel_illum", "barcoding_channels",
                "barcoding_dna", "painting_channels"}

\* PipelineColumns: metadata plus the optional groups named in `groups`
PipelineColumns(metadata, groups) ==
    [f \in GroupFields \cup {"metadata"} |->
        IF f = "metadata" THEN metadata
        ELSE IF f \in DOMAIN groups THEN groups[f] ELSE NoGroup]

\* every ColumnDefinition of a PipelineColumns
ColumnDefsOf(columns) ==
    {columns.metadata[i] : i \in 1..Len(columns.metadata)} \cup
    UNION {{columns[f].columns[i] : i \in 1..Len(columns[f].columns)} :
              f \in {g \in GroupFields : IsGroup(columns[g])}}

RequiredSections ==
    {"metadata", "channel_definitions", "pipelines", "special_values"}

\* load_spec: the LoadDataSpec built from the document.  `doc.sections` are the top-level keys
\* the document has, `doc.body` what they hold.
LoadSpec(doc) ==
    IF /\ RequiredSections \subseteq doc.sections
       /\ \A id \in DOMAIN doc.body.pipelines :
            \A col_def \in ColumnDefsOf(doc.body.pipelines[id].columns) :
                NameNotEmpty(col_def) /\ ModelPostInit(col_def)
    THEN Ok(doc.body)
    ELSE Raise("ValidationError")

(***************************************************************************)
(* load_data_generate_v2.py: the template expander and the column value    *)
(* resolver                                                                *)
(***************************************************************************)
\* one iteration of the loop of expand_column_name over template_vars.items():
\* the formatted placeholder first, then the plain one
ReplaceSimpleName(result, key, val) ==
    IF Contains(result, <<LB, key, RB>>)
    THEN Ok(Replace(result, <<LB, key, RB>>, PyStr(val)))
    ELSE Ok(result)

ExpandNameStep(result, key, val) ==
    IF Contains(result, <<LB, key, FMT, RB>>)
    THEN Then(PyInt(val), LAMBDA n :
            ReplaceSimpleName(Replace(result, <<LB, key, FMT, RB>>, Fmt02d(n)),
                              key, val))
    ELSE ReplaceSimpleName(result, key, val)

RECURSIVE ExpandNameFrom(_, _, _)
ExpandNameFrom(result, tvars, i) ==
    IF i > Len(tvars) THEN Ok(result)
    ELSE Then(ExpandNameStep(result, tvars[i][1], tvars[i][2]),
              LAMBDA next : ExpandNameFrom(next, tvars, i + 1))

\* LoadDataGenerator.expand_column_name: Ok(text) or the exception of int()
ExpandColumnName(name, tvars) == ExpandNameFrom(name, tvars, 1)

\* the same loop, as written a second time in the pattern branch of
\* generate_column_value
ReplaceSimplePattern(value, key, val) ==
    IF Contains(value, <<LB, key, RB>>)
    THEN Ok(Replace(value, <<LB, key, RB>>, PyStr(val)))
    ELSE Ok(value)

\* the iteration without the formatted placeholder
ExpandPatternStepPlainOnly(value, key, val) ==
    ReplaceSimplePattern(value, key, val)

ExpandPatternStep(value, key, val) ==
    IF Contains(value, <<LB, key, FMT, RB>>)
    THEN Then(PyInt(val), LAMBDA n :
            ReplaceSimplePattern(
                Replace(value, <<LB, key, FMT, RB>>, Fmt02d(n)), key, val))
    ELSE ReplaceSimplePattern(value, key, val)

RECURSIVE ExpandPatternFrom(_, _, _)
ExpandPatternFrom(value, tvars, i) ==
    IF i > Len(tvars) THEN Ok(value)
    ELSE Then(ExpandPatternStep(value, tvars[i][1], tvars[i][2]),
              LAMBDA next : ExpandPatternFrom(next, tvars, i + 1))

\* {**row.to_dict(), **template_vars}
LocalVars(row, tvars) ==
    [k \in DOMAIN row \cup {tvars[i][1] : i \in 1..Len(tvars)} |->
        IF DictHas(tvars, k) THEN DictGet(tvars, k) ELSE row[k]]

\* eval(expression, {"ord": ord, "int": int}, local_vars) for the formulas
\* of the model: a name, or int(name).  Ok(value) or the exception raised.
Eval(expression, local_vars) ==
    IF Len(expression) = 1
    THEN IF expression[1] \in DOMAIN local_vars
         THEN Ok(local_vars[expression[1]])
         ELSE Raise("NameError")
    ELSE IF /\ Len(expression) = 4
            /\ expression[1] = "int" /\ expression[2] = "("
            /\ expression[4] = ")"
         THEN IF expression[3] \in DOMAIN local_vars
              THEN Then(PyInt(local_vars[expression[3]]), LAMBDA n : Ok(I(n)))
              ELSE Raise("NameError")
         ELSE Raise("SyntaxError")

\* the source branch with the two lookups swapped
SourceValueScopeFirst(source, row, tvars) ==
    IF Len(source) = 1 /\ DictHas(tvars, source[1])
    THEN DictGet(tvars, source[1])
    ELSE IF Len(source) = 1 /\ RowHas(row, source[1]) THEN row[source[1]]
         ELSE EmptyStr

\* generate_column_value, source branch: the row, then template_vars, then ""
SourceValue(source, row, tvars) ==
    IF Len(source) = 1 /\ RowHas(row, source[1]) THEN row[source[1]]
    ELSE IF Len(source) = 1 /\ DictHas(tvars, source[1])
         THEN DictGet(tvars, source[1])
         ELSE EmptyStr

\* generate_column_value, value branch
FixedValue(value, tvars) ==
    IF value = S(<<"channel_index">>)
    THEN DictGetOr(tvars, "channel_index", I(0))
    ELSE IF value = S(<<"tile">>) THEN DictGetOr(tvars, "tile", I(1))
         ELSE value

\* the expression branch without the try/except
ExpressionValueUncaught(expression, row, tvars) ==
    Eval(expression, LocalVars(row, tvars))

\* generate_column_value, expression branch: any exception gives ""
Except(r, handler) == IF r.ok THEN r ELSE handler

ExpressionValue(expression, row, tvars) ==
    Except(Eval(expression, LocalVars(row, tvars)), Ok(EmptyStr))

\* the test of the value branch if it read "elif col_def.value:"
ValueIsSetTruthy(value) == Truthy(value)

\* "elif col_def.value is not None"
ValueIsSet(value) == value # NoneV

\* generate_column_value with the pattern tested before the source
GenerateColumnValuePatternFirst(col_def, row, tvars) ==
    IF Truthy(col_def.pattern)
    THEN Then(ExpandPatternFrom(col_def.pattern.v, tvars, 1),
              LAMBDA value : Ok(S(value)))
    ELSE IF Truthy(col_def.source)
         THEN Ok(SourceValue(col_def.source.v, row, tvars))
         ELSE IF ValueIsSet(col_def.value)
              THEN Ok(FixedValue(col_def.value, tvars))
              ELSE IF Truthy(col_def.expression)
                   THEN ExpressionValue(col_def.expression.v, row, tvars)
                   ELSE Ok(EmptyStr)

\* LoadDataGenerator.generate_column_value: Ok(value), or the exception the
\* pattern branch lets through
GenerateColumnValue(col_def, row, tvars) ==
    IF Truthy(col_def.source)
    THEN Ok(SourceValue(col_def.source.v, row, tvars))
    ELSE IF Truthy(col_def.pattern)
         THEN Then(ExpandPatternFrom(col_def.pattern.v, tvars, 1),
                   LAMBDA value : Ok(S(value)))
         ELSE IF ValueIsSet(col_def.value)
              THEN Ok(FixedValue(col_def.value, tvars))
              ELSE IF Truthy(col_def.expression)
                   THEN ExpressionValue(col_def.expression.v, row, tvars)
                   ELSE Ok(EmptyStr)

\* the channel lookup with the canonical list searched first
ChannelIndexCanonicalFirst(samplesheet_channels, channels, channel) ==
    ListIndex(channels, channel).v

\* the channel lookup that gives 0 for a channel the row does not list
ChannelIndexZeroFallback(samplesheet_channels, channels, channel) ==
    Except(ListIndex(samplesheet_channels, channel), Ok(I(0))).v

\* the try/except of the strategies: the channel's position in the row's own
\* list, on ValueError its position in the canonical list
ChannelIndex(samplesheet_channels, channels, channel) ==
    Except(ListIndex(samplesheet_channels, channel),
           ListIndex(channels, channel)).v

\* the row's channel list: row["channels"].split(","), the canonical list when
\* the table has no channels column
SamplesheetChannels(row, channels) ==
    IF RowHas(row, "channels") THEN Split(row["channels"].v, ",")
    ELSE channels

(***************************************************************************)
(* PipelineDefinition and the LoadDataSpec accessors                       *)
(***************************************************************************)
\* PipelineDefinition: filter is a query text (<<>> when empty),
\* tiles_per_well is NoneV or an int
PipelineDefinition(name, filter, columns, wide_format, synthetic_tiles, tiles_per_well) ==
    [name |-> name, filter |-> filter, grouping |-> <<>>,
     columns |-> columns, wide_format |-> wide_format,
     synthetic_tiles |-> synthetic_tiles, tiles_per_well |-> tiles_per_well]

\* LoadDataSpec.get_channels
GetChannels(sp, channel_set_name) ==
    IF channel_set_name \in DOMAIN sp.channel_definitions
    THEN Ok(sp.channel_definitions[channel_set_name])
    ELSE Raise("ValueError")

\* a get_pipeline that falls back to some pipeline of the document
GetPipelineOrAny(sp, id) ==
    IF id \in DOMAIN sp.pipelines THEN Ok(sp.pipelines[id])
    ELSE Ok(sp.pipelines[CHOOSE k \in DOMAIN sp.pipelines : TRUE])

\* LoadDataSpec.get_pipeline
GetPipeline(sp, id) ==
    IF id \in DOMAIN sp.pipelines THEN Ok(sp.pipelines[id])
    ELSE Raise("ValueError")

(***************************************************************************)
(* the row generation strategies                                           *)
(***************************************************************************)
\* Path(p).name
PathName(p) == LET segs == Split(p, "/") IN segs[Len(segs)]

\* Path(p).parent.name
PathParentName(p) ==
    LET segs == Split(p, "/")
    IN  IF Len(segs) >= 2 THEN segs[Len(segs) - 1] ELSE <<>>

\* the loop "for col_def in <columns>: data[expand_column_name(...)] =
\* generate_column_value(...)" from column i on: Ok(data) or the exception
RECURSIVE EmitColumns(_, _, _, _, _)
EmitColumns(d, col_defs, row, tvars, i) ==
    IF i > Len(col_defs) THEN Ok(d)
    ELSE Then(ExpandColumnName(col_defs[i].name, tvars), LAMBDA col_name :
         Then(GenerateColumnValue(col_defs[i], row, tvars), LAMBDA value :
            EmitColumns(DictSet(d, col_name, value), col_defs, row, tvars,
                        i + 1)))

\* channel_vars = {**vars, "channel": channel, "channel_index": index}
ChannelVars(tvars, channel, index) ==
    DictMerge(tvars, << <<"channel", S(channel)>>,
                        <<"channel_index", I(index)>> >>)

\* the channel_index of a pass: the orig and combined passes look it up in
\* the row's own list, the illum pass sets it to 0
PassChannelIndex(use_row_order, row, channels, channel) ==
    IF use_row_order
    THEN ChannelIndex(SamplesheetChannels(row, channels), channels, channel)
    ELSE 0

\* "for channel in channels" from channel i on, over one group's columns
RECURSIVE EmitChannels(_, _, _, _, _, _, _)
EmitChannels(d, col_defs, channels, row, tvars, use_row_order, i) ==
    IF i > Len(channels) THEN Ok(d)
    ELSE Then(EmitColumns(d, col_defs, row,
                  ChannelVars(tvars, channels[i],
                      PassChannelIndex(use_row_order, row, channels,
                                       channels[i])), 1),
              LAMBDA next :
                  EmitChannels(next, col_defs, channels, row, tvars,
                               use_row_order, i + 1))

\* _generate_standard: template_vars of one sample row
StandardTemplateVars(row, base_path) ==
    LET has_path == RowHas(row, "path") /\ Truthy(row["path"])
    IN  << <<"base_path", base_path>>,
           <<"plate", RowGetOr(row, "plate", EmptyStr)>>,
           <<"well", RowGetOr(row, "well", EmptyStr)>>,
           <<"site", RowGetOr(row, "site", EmptyStr)>>,
           <<"cycle", RowGetOr(row, "cycle", EmptyStr)>>,
           <<"acquisition_folder",
             IF has_path THEN S(PathParentName(row["path"].v)) ELSE EmptyStr>>,
           <<"filename",
             IF has_path THEN S(PathName(row["path"].v)) ELSE EmptyStr>> >>

\* _generate_standard: "Generate metadata columns"
StandardMetadata(pipeline, row, tvars) ==
    EmitColumns(<<>>, pipeline.columns.metadata, row, tvars, 1)

\* which branch of "Generate per-channel columns" a PipelineColumns takes
StandardBranch(columns) ==
    IF IsGroup(columns.per_channel_orig) /\ IsGroup(columns.per_channel_illum)
    THEN "split"
    ELSE IF IsGroup(columns.per_channel) THEN "combined" ELSE "none"

\* the orig pass emitting, per channel, the illum columns as well
StandardOrigPassInterleaved(sp, pipeline, row, tvars, d) ==
    Then(GetChannels(sp, pipeline.columns.per_channel_orig.channels),
         LAMBDA channels :
            EmitChannels(d,
                pipeline.columns.per_channel_orig.columns
                    \o pipeline.columns.per_channel_illum.columns,
                channels, row, tvars, TRUE, 1))

\* _generate_standard: "Generate Orig columns first"
StandardOrigPass(sp, pipeline, row, tvars, d) ==
    Then(GetChannels(sp, pipeline.columns.per_channel_orig.channels),
         LAMBDA channels :
            EmitChannels(d, pipeline.columns.per_channel_orig.columns,
                         channels, row, tvars, TRUE, 1))

\* _generate_standard: "Generate Illum columns" (over the channel list of
\* the orig group)
StandardIllumPass(sp, pipeline, row, tvars, d) ==
    Then(GetChannels(sp, pipeline.columns.per_channel_orig.channels),
         LAMBDA channels :
            EmitChannels(d, pipeline.columns.per_channel_illum.columns,
                         channels, row, tvars, FALSE, 1))

\* _generate_standard: "Combined columns (old style)"
StandardCombinedPass(sp, pipeline, row, tvars, d) ==
    Then(GetChannels(sp, pipeline.columns.per_channel.channels),
         LAMBDA channels :
            EmitChannels(d, pipeline.columns.per_channel.columns,
                         channels, row, tvars, TRUE, 1))

\* the order of Python's str comparison on the well names of the model
WellOrder == <<"A1", "B2">>

WellRank(well) ==
    CHOOSE i \in 1..Len(WellOrder) : <<WellOrder[i]>> = well.v

\* (well, site) < (well2, site2) as groupby sorts its keys
KeyLess(k1, k2) ==
    \/ WellRank(k1[1]) < WellRank(k2[1])
    \/ WellRank(k1[1]) = WellRank(k2[1]) /\ k1[2].v < k2[2].v

RECURSIVE SortKeys(_)
SortKeys(keys) ==
    IF keys = {} THEN <<>>
    ELSE LET least == CHOOSE k \in keys :
                          \A other \in keys \ {k} : KeyLess(k, other)
         IN  <<least>> \o SortKeys(keys \ {least})

\* filtered_df.groupby(["well", "site"]): the groups in ascending key order,
\* each with its rows in table order
GroupByWellSite(df_rows) ==
    LET keys == {<<df_rows[i]["well"], df_rows[i]["site"]>> :
                     i \in 1..Len(df_rows)}
        sorted == SortKeys(keys)
        RowsOf(k) == SelectSeq(df_rows,
                         LAMBDA r : r["well"] = k[1] /\ r["site"] = k[2])
    IN  [i \in 1..Len(sorted) |->
            [well |-> sorted[i][1], site |-> sorted[i][2],
             rows |-> RowsOf(sorted[i])]]

RECURSIVE SortInts(_)
SortInts(ns) ==
    IF ns = {} THEN <<>>
    ELSE LET least == CHOOSE n \in ns : \A m \in ns : n <= m
         IN  <<least>> \o SortInts(ns \ {least})

\* the cycle of the first row of the group only
CyclesOfFirstRow(group_rows) == <<group_rows[1]["cycle"].v>>

\* sorted(group["cycle"].unique())
Cycles(group_rows) ==
    SortInts({group_rows[i]["cycle"].v : i \in 1..Len(group_rows)})

\* the first row of the group, whatever the cycle
CycleRowFirst(group_rows, cycle) == group_rows[1]

\* group[group["cycle"] == cycle].iloc[0]
CycleRow(group_rows, cycle) ==
    group_rows[CHOOSE i \in 1..Len(group_rows) :
                   /\ group_rows[i]["cycle"].v = cycle
                   /\ \A k \in 1..(i - 1) : group_rows[k]["cycle"].v # cycle]

\* _generate_wide_format: template_vars of one (well, site) group
WideTemplateVars(group, base_path) ==
    << <<"base_path", base_path>>,
       <<"plate", group.rows[1]["plate"]>>,
       <<"well", group.well>>,
       <<"site", group.site>> >>

\* cycle_vars = {**template_vars, "cycle": ..., "acquisition_folder": ...,
\* "filename": ...}
CycleVars(tvars, cycle, cycle_row) ==
    DictMerge(tvars,
        << <<"cycle", I(cycle)>>,
           <<"acquisition_folder", S(PathParentName(cycle_row["path"].v))>>,
           <<"filename", S(PathName(cycle_row["path"].v))>> >>)

\* _generate_wide_format: "Generate metadata columns" from group.iloc[0]
WideMetadata(pipeline, group, tvars) ==
    EmitColumns(<<>>, pipeline.columns.metadata, group.rows[1], tvars, 1)

\* which branch of the per-cycle columns a PipelineColumns takes
WideBranch(columns) ==
    IF /\ IsGroup(columns.per_cycle_per_channel_orig)
       /\ IsGroup(columns.per_cycle_per_channel_illum)
    THEN "split"
    ELSE IF IsGroup(columns.per_cycle_per_channel) THEN "combined"
         ELSE "none"

\* "for cycle in cycles: ... for channel in channels: ..." of a split pass,
\* from cycle j on; special_rules are not read here
RECURSIVE WideEmitCycles(_, _, _, _, _, _, _, _)
WideEmitCycles(d, col_defs, channels, group_rows, cycles, tvars, use_row_order, j) ==
    IF j > Len(cycles) THEN Ok(d)
    ELSE Then(EmitChannels(d, col_defs, channels,
                  CycleRow(group_rows, cycles[j]),
                  CycleVars(tvars, cycles[j], CycleRow(group_rows, cycles[j])),
                  use_row_order, 1),
              LAMBDA next :
                  WideEmitCycles(next, col_defs, channels, group_rows, cycles,
                                 tvars, use_row_order, j + 1))

\* _generate_wide_format: "First generate all Orig columns"
WideOrigPass(sp, pipeline, group, tvars, d) ==
    Then(GetChannels(sp, pipeline.columns.per_cycle_per_channel_orig.channels),
         LAMBDA channels :
            WideEmitCycles(d,
                pipeline.columns.per_cycle_per_channel_orig.columns,
                channels, group.rows, Cycles(group.rows), tvars, TRUE, 1))

\* _generate_wide_format: "Then generate all Illum columns"
WideIllumPass(sp, pipeline, group, tvars, d) ==
    Then(GetChannels(sp, pipeline.columns.per_cycle_per_channel_orig.channels),
         LAMBDA channels :
            WideEmitCycles(d,
                pipeline.columns.per_cycle_per_channel_illum.columns,
                channels, group.rows, Cycles(group.rows), tvars, FALSE, 1))

\* the special-rule test of the combined pass: skip channel at this cycle
SkipByRule(special_rules, channel, cycle) ==
    /\ DictHas(special_rules, channel)
    /\ DictHas(DictGet(special_rules, channel), "only_cycle")
    /\ cycle # DictGet(DictGet(special_rules, channel), "only_cycle")

\* "for channel in channels" of the combined pass, from channel i on
RECURSIVE RuleEmitChannels(_, _, _, _, _, _, _)
RuleEmitChannels(d, grp, channels, cycle_row, cycle_vars, cycle, i) ==
    IF i > Len(channels) THEN Ok(d)
    ELSE IF SkipByRule(grp.special_rules, channels[i], cycle)
         THEN RuleEmitChannels(d, grp, channels, cycle_row, cycle_vars,
                               cycle, i + 1)
         ELSE Then(EmitColumns(d, grp.columns, cycle_row,
                       ChannelVars(cycle_vars, channels[i],
                           PassChannelIndex(TRUE, cycle_row, channels,
                                            channels[i])), 1),
                   LAMBDA next :
                       RuleEmitChannels(next, grp, channels, cycle_row,
                                        cycle_vars, cycle, i + 1))

RECURSIVE RuleEmitCycles(_, _, _, _, _, _, _)
RuleEmitCycles(d, grp, channels, group_rows, cycles, tvars, j) ==
    IF j > Len(cycles) THEN Ok(d)
    ELSE Then(RuleEmitChannels(d, grp, channels,
                  CycleRow(group_rows, cycles[j]),
                  CycleVars(tvars, cycles[j], CycleRow(group_rows, cycles[j])),
                  cycles[j], 1),
              LAMBDA next :
                  RuleEmitCycles(next, grp, channels, group_rows, cycles,
                                 tvars, j + 1))

\* _generate_wide_format: "old-style interleaved columns"
WideCombinedPass(sp, pipeline, group, tvars, d) ==
    Then(GetChannels(sp, pipeline.columns.per_cycle_per_channel.channels),
         LAMBDA channels :
            RuleEmitCycles(d, pipeline.columns.per_cycle_per_channel,
                           channels, group.rows, Cycles(group.rows), tvars, 1))

DefaultTilesPerWell == 4

\* tiles_per_well = pipeline.tiles_per_well or 4
TilesPerWell(pipeline) ==
    IF Truthy(pipeline.tiles_per_well) THEN pipeline.tiles_per_well.v
    ELSE DefaultTilesPerWell

\* filtered_df["well"].unique(): the wells in table order
UniqueWells(df_rows) ==
    LET first == {i \in 1..Len(df_rows) :
                     \A k \in 1..(i - 1) : df_rows[k]["well"] # df_rows[i]["well"]}
        RECURSIVE Pick(_)
        Pick(i) == IF i > Len(df_rows) THEN <<>>
                   ELSE (IF i \in first THEN <<df_rows[i]["well"]>> ELSE <<>>)
                            \o Pick(i + 1)
    IN  Pick(1)

\* the (well, tile) pairs with the tile loop outside the well loop
WellTilesByTile(df_rows, tiles_per_well) ==
    LET wells == UniqueWells(df_rows)
    IN  [n \in 1..(Len(wells) * tiles_per_well) |->
            [well |-> wells[((n - 1) % Len(wells)) + 1],
             tile |-> ((n - 1) \div Len(wells)) + 1]]

\* the (well, tile) pairs in the order of the two loops of _generate_pipeline_9
WellTiles(df_rows, tiles_per_well) ==
    LET wells == UniqueWells(df_rows)
    IN  [n \in 1..(Len(wells) * tiles_per_well) |->
            [well |-> wells[((n - 1) \div tiles_per_well) + 1],
             tile |-> ((n - 1) % tiles_per_well) + 1]]

\* _generate_pipeline_9: template_vars of one (well, tile)
Pipeline9TemplateVars(df_rows, item, base_path) ==
    << <<"base_path", base_path>>,
       <<"plate", df_rows[1]["plate"]>>,
       <<"well", item.well>>,
       <<"tile", I(item.tile)>> >>

\* the metadata value of _generate_pipeline_9: a column whose source is
\* "tile" gets the tile, every other one is resolved on filtered_df.iloc[0]
Pipeline9MetadataValue(col_def, df_rows, tvars, tile) ==
    IF col_def.source = S(<<"tile">>) THEN Ok(I(tile))
    ELSE GenerateColumnValue(col_def, df_rows[1], tvars)

\* _generate_pipeline_9: "Generate metadata columns" from column i on
RECURSIVE Pipeline9Metadata(_, _, _, _, _, _)
Pipeline9Metadata(d, col_defs, df_rows, tvars, tile, i) ==
    IF i > Len(col_defs) THEN Ok(d)
    ELSE Then(ExpandColumnName(col_defs[i].name, tvars), LAMBDA col_name :
         Then(Pipeline9MetadataValue(col_defs[i], df_rows, tvars, tile),
              LAMBDA value :
                 Pipeline9Metadata(DictSet(d, col_name, value), col_defs,
                                   df_rows, tvars, tile, i + 1)))

\* "for cycle in cycles: for channel in channels:" over fixed lists, the n-th
\* (cycle, channel) pair on; scope {**template_vars, cycle, channel}
RECURSIVE Pipeline9EmitPairs(_, _, _, _, _, _, _)
Pipeline9EmitPairs(d, col_defs, cycles, channels, row, tvars, n) ==
    IF n > Len(cycles) * Len(channels) THEN Ok(d)
    ELSE Then(EmitColumns(d, col_defs, row,
                  DictMerge(tvars,
                      << <<"cycle", I(cycles[((n - 1) \div Len(channels)) + 1])>>,
                         <<"channel",
                           S(channels[((n - 1) % Len(channels)) + 1])>> >>),
                  1),
              LAMBDA next :
                  Pipeline9EmitPairs(next, col_defs, cycles, channels, row,
                                     tvars, n + 1))

\* "for channel in painting_channels.channels:" from channel i on; scope
\* {**template_vars, channel}
RECURSIVE Pipeline9EmitPainting(_, _, _, _, _, _)
Pipeline9EmitPainting(d, col_defs, channels, row, tvars, i) ==
    IF i > Len(channels) THEN Ok(d)
    ELSE Then(EmitColumns(d, col_defs, row,
                  DictMerge(tvars, << <<"channel", S(channels[i])>> >>), 1),
              LAMBDA next :
                  Pipeline9EmitPainting(next, col_defs, channels, row, tvars,
                                        i + 1))

\* "if pipeline.columns.barcoding_channels:" and its loops
Pipeline9Barcoding(cols, row, tvars, d) ==
    IF IsGroup(cols.barcoding_channels)
    THEN Pipeline9EmitPairs(d, cols.barcoding_channels.columns,
             cols.barcoding_channels.cycles, cols.barcoding_channels.channels,
             row, tvars, 1)
    ELSE Ok(d)

\* the DNA block run over the cycles of the barcoding channels
Pipeline9DnaBarcodingCycles(cols, row, tvars, d) ==
    IF IsGroup(cols.barcoding_dna)
    THEN Pipeline9EmitPairs(d, cols.barcoding_dna.columns,
             IF IsGroup(cols.barcoding_channels)
             THEN cols.barcoding_channels.cycles ELSE cols.barcoding_dna.cycles,
             << <<"DNA">> >>, row, tvars, 1)
    ELSE Ok(d)

\* "if pipeline.columns.barcoding_dna:" and its loop, the channel "DNA"
Pipeline9Dna(cols, row, tvars, d) ==
    IF IsGroup(cols.barcoding_dna)
    THEN Pipeline9EmitPairs(d, cols.barcoding_dna.columns,
             cols.barcoding_dna.cycles, << <<"DNA">> >>, row, tvars, 1)
    ELSE Ok(d)

\* the painting block run over the channel list of the sample row
Pipeline9PaintingRowChannels(cols, row, tvars, d) ==
    IF IsGroup(cols.painting_channels)
    THEN Pipeline9EmitPainting(d, cols.painting_channels.columns,
             SamplesheetChannels(row, cols.painting_channels.channels),
             row, tvars, 1)
    ELSE Ok(d)

\* "if pipeline.columns.painting_channels:" and its loop
Pipeline9Painting(cols, row, tvars, d) ==
    IF IsGroup(cols.painting_channels)
    THEN Pipeline9EmitPainting(d, cols.painting_channels.columns,
             cols.painting_channels.channels, row, tvars, 1)
    ELSE Ok(d)

\* _generate_pipeline_9: barcoding channels, then barcoding DNA, then
\* painting channels
Pipeline9Groups(pipeline, df_rows, tvars, d) ==
    Then(Pipeline9Barcoding(pipeline.columns, df_rows[1], tvars, d),
         LAMBDA d1 :
    Then(Pipeline9Dna(pipeline.columns, df_rows[1], tvars, d1),
         LAMBDA d2 :
            Pipeline9Painting(pipeline.columns, df_rows[1], tvars, d2)))

(***************************************************************************)
(* generate_pipeline: lookup, filter, dispatch                             *)
(***************************************************************************)
\* a query that keeps every row
FilterRowsKeepAll(df, filter) == Ok(df.rows)

\* one row against the query text "<field> == <word>"
RowMatches(row, filter) == row[filter[1]] = S(<<filter[3]>>)

\* samplesheet_df.query(pipeline.filter) if pipeline.filter else
\* samplesheet_df: Ok(rows) or the error of a query on a missing column
FilterRows(df, filter) ==
    IF filter = <<>> THEN Ok(df.rows)
    ELSE IF filter[1] \notin df.columns THEN Raise("UndefinedVariableError")
         ELSE Ok(SelectSeq(df.rows, LAMBDA r : RowMatches(r, filter)))

\* generate_pipeline: the if / elif / else that picks the strategy
Dispatch(id, pipeline) ==
    IF pipeline.wide_format /\ id \in {"6", "7"} THEN "wide_format"
    ELSE IF id = "9" THEN "synthetic_tile"
         ELSE "standard"

\* base_path = base_path or self.spec.metadata.base_path
BasePath(arg, sp) == IF Truthy(arg) THEN arg ELSE sp.metadata.base_path

(***************************************************************************)
(* the specifications and sample tables the model runs on                  *)
(***************************************************************************)
MaxRows == 2
MaxTiles == 2

Ph(v) == <<LB, v, RB>>
PhF(v) == <<LB, v, FMT, RB>>

ChannelDefinitions ==
    [barcoding |-> << <<"DNA">>, <<"A">>, <<"C">> >>,
     painting |-> << <<"DNA">>, <<"Phalloidin">> >>]

MetadataColumns ==
    << Src(<<"Metadata_Plate">>, "plate"),
       Src(<<"Metadata_Well">>, "well"),
       Src(<<"Metadata_Site">>, "site"),
       Src(<<"Metadata_Cycle">>, "cycle"),
       Expr(<<"Metadata_CycleNumber">>, <<"int", "(", "cycle", ")">>) >>

TileMetadataColumns ==
    << Src(<<"Metadata_Plate">>, "plate"),
       Src(<<"Metadata_Well">>, "well"),
       Src(<<"Metadata_Site">>, "tile"),
       Expr(<<"Metadata_CycleNumber">>, <<"int", "(", "cycle", ")">>) >>

CombinedColumns ==
    << Pat(<<"FileName_">> \o Ph("channel"), Ph("filename")),
       Val(<<"Frame_">> \o Ph("channel"), S(<<"channel_index">>)) >>

OrigColumns ==
    << Pat(<<"FileName_Orig">> \o Ph("channel"), Ph("filename")),
       Val(<<"Frame_Orig">> \o Ph("channel"), S(<<"channel_index">>)) >>

IllumColumns ==
    << Pat(<<"FileName_Illum">> \o Ph("channel"),
           Ph("plate") \o <<"_Illum">> \o Ph("channel") \o <<".npy">>),
       Val(<<"Frame_Illum">> \o Ph("channel"), S(<<"channel_index">>)) >>

CycleCombinedColumns ==
    << Pat(<<"FileName_Cycle">> \o PhF("cycle") \o <<"_">> \o Ph("channel"),
           Ph("filename")),
       Val(<<"Frame_Cycle">> \o PhF("cycle") \o <<"_">> \o Ph("channel"),
           S(<<"channel_index">>)) >>

CycleOrigColumns ==
    << Pat(<<"FileName_Cycle">> \o PhF("cycle") \o <<"_Orig">>
               \o Ph("channel"), Ph("filename")),
       Val(<<"Frame_Cycle">> \o PhF("cycle") \o <<"_Orig">> \o Ph("channel"),
           S(<<"channel_index">>)) >>

CycleIllumColumns ==
    << Pat(<<"FileName_Cycle">> \o PhF("cycle") \o <<"_Illum">>
               \o Ph("channel"),
           Ph("plate") \o <<"_Cycle">> \o Ph("cycle") \o <<"_Illum">>
               \o Ph("channel") \o <<".npy">>) >>

BarcodingColumns ==
    << Pat(<<"FileName_Cycle">> \o PhF("cycle") \o <<"_">> \o Ph("channel"),
           <<"Well_">> \o Ph("well") \o <<"_Site_">> \o Ph("tile")
               \o <<"_Cycle">> \o PhF("cycle") \o <<"_">> \o Ph("channel")) >>

DnaColumns ==
    << Pat(<<"FileName_Cycle">> \o PhF("cycle") \o <<"_">> \o Ph("channel"),
           <<"Well_">> \o Ph("well") \o <<"_Site_">> \o Ph("tile")
               \o <<"_Cycle">> \o PhF("cycle") \o <<"_DNA">>) >>

PaintingColumns ==
    << Pat(<<"FileName_Corr">> \o Ph("channel"),
           <<"Well_">> \o Ph("well") \o <<"_Site_">> \o Ph("tile")
               \o <<"_Corr">> \o Ph("channel")) >>

\* special_rules: "DNA only from cycle 1"
DnaOnlyCycle1 == << << <<"DNA">>, << <<"only_cycle", 1>> >> >> >>

\* the PipelineColumns of the model, by kind
ColumnSets ==
    [combined |->
        PipelineColumns(MetadataColumns,
            [per_channel |-> Group("painting", CombinedColumns, <<>>)]),
     split |->
        PipelineColumns(MetadataColumns,
            [per_channel_orig |-> Group("painting", OrigColumns, <<>>),
             per_channel_illum |-> Group("painting", IllumColumns, <<>>)]),
     wide_combined |->
        PipelineColumns(MetadataColumns,
            [per_cycle_per_channel |->
                Group("barcoding", CycleCombinedColumns, DnaOnlyCycle1)]),
     wide_split |->
        PipelineColumns(MetadataColumns,
            [per_cycle_per_channel_orig |->
                Group("barcoding", CycleOrigColumns, DnaOnlyCycle1),
             per_cycle_per_channel_illum |->
                Group("barcoding", CycleIllumColumns, DnaOnlyCycle1)]),
     tiles |->
        PipelineColumns(TileMetadataColumns,
            [barcoding_channels |->
                FixedGroup(<<1, 2>>, << <<"A">>, <<"C">> >>, BarcodingColumns),
             barcoding_dna |-> FixedGroup(<<1>>, <<>>, DnaColumns),
             painting_channels |->
                FixedGroup(<<>>, << <<"DNA">>, <<"Phalloidin">> >>,
                           PaintingColumns)])]

PipelineIds == {"2", "6", "7", "9"}

Filters == {<<>>, <<"arm", "==", "barcoding">>}

\* the pipeline definitions a specification document can hold
PipelineDefinitions ==
    {PipelineDefinition("pipeline", filter, ColumnSets[kind], wide, tiles,
                        I(MaxTiles)) :
        filter \in Filters, kind \in DOMAIN ColumnSets,
        wide \in BOOLEAN, tiles \in BOOLEAN}

\* a LoadDataSpec with one pipeline
LoadDataSpec(id, pipeline) ==
    [metadata |-> [description |-> "model", version |-> "1",
                   base_path |-> S(<<"base">>)],
     channel_definitions |-> ChannelDefinitions,
     pipelines |-> (id :> pipeline)]

SampleColumns ==
    {"path", "arm", "plate", "well", "site", "cycle", "channels"}

\* one record of the samplesheet; the path is
\* <plate>/<acquisition folder of the cycle>/<file of the well and site>
SampleRow(arm, plate, well, site, cycle, channels) ==
    [path |-> S(<<plate, "/", "SBS-">> \o IntToStr(cycle)
                  \o <<"/", "Well", well, "_Point">> \o IntToStr(site)),
     arm |-> S(<<arm>>), plate |-> S(<<plate>>), well |-> S(<<well>>),
     site |-> I(site), cycle |-> I(cycle), channels |-> S(channels)]

SampleRows ==
    {SampleRow("barcoding", "Plate1", "A1", 0, 1, <<"DNA", ",", "A", ",", "C">>),
     SampleRow("barcoding", "Plate1", "A1", 0, 2, <<"A", ",", "C", ",", "DNA">>),
     SampleRow("barcoding", "Plate1", "B2", 1, 1, <<"A", ",", "C">>),
     SampleRow("barcoding", "Plate2", "A1", 0, 3, <<"C", ",", "A">>),
     SampleRow("painting", "Plate2", "B2", 0, 1, <<"DNA", ",", "Phalloidin">>)}

\* the column sets a sample table can have: all of them, or all but the
\* optional channels and cycle
SampleColumnSets == {SampleColumns, SampleColumns \ {"channels", "cycle"}}

Restrict(row, columns) == [c \in columns |-> row[c]]

\* the sample tables: up to MaxRows distinct records in any order
SampleTables ==
    UNION {{[columns |-> columns,
             rows |-> [i \in 1..n |-> Restrict(g[i], columns)]] :
                columns \in SampleColumnSets,
                g \in {h \in [1..n -> SampleRows] :
                          \A i, j \in 1..n : i # j => h[i] # h[j]}} :
           n \in 0..MaxRows}

NoCall == [fn |-> "none"]
NoRet == Raise("pending")

\* the variables of a direct call, at rest
CallIdle == call = NoCall /\ ret = NoRet

(***************************************************************************)
(* main() and generate_pipeline() as a state machine                       *)
(***************************************************************************)
\* main() after load_spec, read_csv and the choice of pipeline_ids: the
\* document holds one pipeline, the command line asks for one id
Init ==
    /\ \E id \in PipelineIds, pipeline \in PipelineDefinitions :
            spec = LoadDataSpec(id, pipeline)
    /\ samplesheet_df \in SampleTables
    /\ \E id \in PipelineIds : pipeline_ids = <<id>>
    /\ pipeline_id = ""
    /\ pc = "main"
    /\ strategy = "none"
    /\ filtered_df = <<>>
    /\ work = <<>>
    /\ template_vars = <<>>
    /\ data = <<>>
    /\ rows = <<>>
    /\ exc = ""
    /\ outputs = <<>>
    /\ CallIdle

\* the items of the strategy's outer loop
WorkItems(strat, pipeline, df_rows) ==
    CASE strat = "standard" -> df_rows
      [] strat = "wide_format" -> GroupByWellSite(df_rows)
      [] OTHER -> WellTiles(df_rows, TilesPerWell(pipeline))

\* generate_pipeline reading the first filtered row before the strategy's
\* loop: an IndexError when no row is left
PrepareFirstRow(sp, df, id) ==
    Then(GetPipeline(sp, id), LAMBDA pipeline :
    Then(FilterRows(df, pipeline.filter), LAMBDA filtered :
        IF filtered = <<>> THEN Raise("IndexError")
        ELSE Ok([strategy |-> Dispatch(id, pipeline),
                 filtered_df |-> filtered,
                 work |-> WorkItems(Dispatch(id, pipeline), pipeline,
                                    filtered)])))

\* generate_pipeline up to the dispatch: Ok of the strategy, the filtered
\* rows and the loop's items, or the exception of get_pipeline / query
Prepare(sp, df, id) ==
    Then(GetPipeline(sp, id), LAMBDA pipeline :
    Then(FilterRows(df, pipeline.filter), LAMBDA filtered :
        Ok([strategy |-> Dispatch(id, pipeline),
            filtered_df |-> filtered,
            work |-> WorkItems(Dispatch(id, pipeline), pipeline, filtered)])))

\* generate_pipeline whose rows list outlives the call
GenerateStepKeepRows(r) ==
    IF r.ok
    THEN /\ strategy' = r.v.strategy
         /\ filtered_df' = r.v.filtered_df
         /\ work' = r.v.work
         /\ rows' = rows
         /\ pc' = IF r.v.work = <<>> THEN "return" ELSE "row"
         /\ exc' = ""
    ELSE /\ pc' = "raise" /\ exc' = r.v
         /\ UNCHANGED <<strategy, filtered_df, work, rows>>

GenerateStep(r) ==
    IF r.ok
    THEN /\ strategy' = r.v.strategy
         /\ filtered_df' = r.v.filtered_df
         /\ work' = r.v.work
         /\ rows' = <<>>
         /\ pc' = IF r.v.work = <<>> THEN "return" ELSE "row"
         /\ exc' = ""
    ELSE /\ pc' = "raise" /\ exc' = r.v
         /\ UNCHANGED <<strategy, filtered_df, work, rows>>

\* main(): the next pipeline id; generate_pipeline(): get_pipeline, the
\* filter, rows = [] and the choice of the strategy
GeneratePipeline ==
    /\ pc = "main"
    /\ pipeline_ids # <<>>
    /\ pipeline_id' = Head(pipeline_ids)
    /\ GenerateStep(Prepare(spec, samplesheet_df, Head(pipeline_ids)))
    /\ UNCHANGED <<spec, samplesheet_df, pipeline_ids, template_vars, data,
                   outputs, call, ret>>

Pipeline == spec.pipelines[pipeline_id]

\* the groups of one row of _generate_standard, after its metadata
StandardGroups(sp, pipeline, row, tvars, d) ==
    IF StandardBranch(pipeline.columns) = "split"
    THEN Then(StandardOrigPass(sp, pipeline, row, tvars, d), LAMBDA d1 :
            StandardIllumPass(sp, pipeline, row, tvars, d1))
    ELSE IF StandardBranch(pipeline.columns) = "combined"
         THEN StandardCombinedPass(sp, pipeline, row, tvars, d)
         ELSE Ok(d)

\* one pass of the loop body of _generate_standard: the row's dict
StandardRow(sp, pipeline, row, base_path) ==
    Then(StandardMetadata(pipeline, row,
                          StandardTemplateVars(row, base_path)),
         LAMBDA d : StandardGroups(sp, pipeline, row,
                                   StandardTemplateVars(row, base_path), d))

\* the groups of one row of _generate_wide_format, after its metadata
WideGroups(sp, pipeline, group, tvars, d) ==
    IF WideBranch(pipeline.columns) = "split"
    THEN Then(WideOrigPass(sp, pipeline, group, tvars, d), LAMBDA d1 :
            WideIllumPass(sp, pipeline, group, tvars, d1))
    ELSE IF WideBranch(pipeline.columns) = "combined"
         THEN WideCombinedPass(sp, pipeline, group, tvars, d)
         ELSE Ok(d)

\* one pass of the loop body of _generate_wide_format
WideRow(sp, pipeline, df, group, base_path) ==
    IF "cycle" \notin df.columns THEN Raise("KeyError")
    ELSE Then(WideMetadata(pipeline, group,
                           WideTemplateVars(group, base_path)),
              LAMBDA d : WideGroups(sp, pipeline, group,
                                    WideTemplateVars(group, base_path), d))

\* one pass of the inner loop body of _generate_pipeline_9
Pipeline9Row(pipeline, df_rows, item, base_path) ==
    Then(Pipeline9Metadata(<<>>, pipeline.columns.metadata, df_rows,
             Pipeline9TemplateVars(df_rows, item, base_path), item.tile, 1),
         LAMBDA d : Pipeline9Groups(pipeline, df_rows,
                        Pipeline9TemplateVars(df_rows, item, base_path), d))

\* the loop body of the strategy on one item of its loop
RowOf(sp, df, id, prepared, item) ==
    IF prepared.strategy = "standard"
    THEN StandardRow(sp, sp.pipelines[id], item, BasePath(NoneV, sp))
    ELSE IF prepared.strategy = "wide_format"
         THEN WideRow(sp, sp.pipelines[id], df, item, BasePath(NoneV, sp))
         ELSE Pipeline9Row(sp.pipelines[id], prepared.filtered_df, item,
                           BasePath(NoneV, sp))

RECURSIVE RowsFrom(_, _, _, _, _, _)
RowsFrom(sp, df, id, prepared, acc, i) ==
    IF i > Len(prepared.work) THEN Ok(acc)
    ELSE Then(RowOf(sp, df, id, prepared, prepared.work[i]), LAMBDA d :
            RowsFrom(sp, df, id, prepared, Append(acc, d), i + 1))

\* generate_pipeline(pipeline_id, samplesheet_df) as a function: Ok(rows of
\* the table) or the exception
GeneratePipelineResult(sp, df, id) ==
    Then(Prepare(sp, df, id), LAMBDA prepared :
        RowsFrom(sp, df, id, prepared, <<>>, 1))

BaseOfRun == BasePath(NoneV, spec)

\* a step of a loop body: the row under construction becomes r.v, or the
\* exception r.v leaves generate_pipeline
RowStep(r, tvars, next_pc) ==
    /\ IF r.ok
       THEN /\ data' = r.v /\ template_vars' = tvars /\ pc' = next_pc
            /\ exc' = ""
       ELSE /\ pc' = "raise" /\ exc' = r.v
            /\ UNCHANGED <<data, template_vars>>
    /\ UNCHANGED <<spec, samplesheet_df, pipeline_ids, pipeline_id, strategy,
                   filtered_df, work, rows, outputs, call, ret>>

\* _generate_standard, top of the loop body: template_vars and metadata
StandardBeginRow ==
    /\ pc = "row" /\ strategy = "standard"
    /\ RowStep(StandardMetadata(Pipeline, Head(work),
                   StandardTemplateVars(Head(work), BaseOfRun)),
               StandardTemplateVars(Head(work), BaseOfRun),
               IF StandardBranch(Pipeline.columns) = "none"
               THEN "append" ELSE "groups")

StandardOrig ==
    /\ pc = "groups" /\ strategy = "standard"
    /\ StandardBranch(Pipeline.columns) = "split"
    /\ RowStep(StandardOrigPass(spec, Pipeline, Head(work), template_vars,
                                data), template_vars, "illum")

StandardIllum ==
    /\ pc = "illum" /\ strategy = "standard"
    /\ RowStep(StandardIllumPass(spec, Pipeline, Head(work), template_vars,
                                 data), template_vars, "append")

StandardCombined ==
    /\ pc = "groups" /\ strategy = "standard"
    /\ StandardBranch(Pipeline.columns) = "combined"
    /\ RowStep(StandardCombinedPass(spec, Pipeline, Head(work), template_vars,
                                    data), template_vars, "append")

\* _generate_wide_format, top of the loop body: plate, cycles (a KeyError
\* when the table has no cycle column), template_vars and metadata
WideBeginGroup ==
    /\ pc = "row" /\ strategy = "wide_format"
    /\ IF "cycle" \notin samplesheet_df.columns
       THEN RowStep(Raise("KeyError"), <<>>, "raise")
       ELSE RowStep(WideMetadata(Pipeline, Head(work),
                        WideTemplateVars(Head(work), BaseOfRun)),
                    WideTemplateVars(Head(work), BaseOfRun),
                    IF WideBranch(Pipeline.columns) = "none"
                    THEN "append" ELSE "groups")

WideOrig ==
    /\ pc = "groups" /\ strategy = "wide_format"
    /\ WideBranch(Pipeline.columns) = "split"
    /\ RowStep(WideOrigPass(spec, Pipeline, Head(work), template_vars, data),
               template_vars, "illum")

WideIllum ==
    /\ pc = "illum" /\ strategy = "wide_format"
    /\ RowStep(WideIllumPass(spec, Pipeline, Head(work), template_vars, data),
               template_vars, "append")

WideCombined ==
    /\ pc = "groups" /\ strategy = "wide_format"
    /\ WideBranch(Pipeline.columns) = "combined"
    /\ RowStep(WideCombinedPass(spec, Pipeline, Head(work), template_vars,
                                data), template_vars, "append")

\* _generate_pipeline_9, top of the inner loop body: template_vars, metadata
Pipeline9BeginRow ==
    /\ pc = "row" /\ strategy = "synthetic_tile"
    /\ RowStep(Pipeline9Metadata(<<>>, Pipeline.columns.metadata, filtered_df,
                   Pipeline9TemplateVars(filtered_df, Head(work), BaseOfRun),
                   Head(work).tile, 1),
               Pipeline9TemplateVars(filtered_df, Head(work), BaseOfRun),
               "groups")

Pipeline9EmitGroups ==
    /\ pc = "groups" /\ strategy = "synthetic_tile"
    /\ RowStep(Pipeline9Groups(Pipeline, filtered_df, template_vars, data),
               template_vars, "append")

\* rows.append(data) as soon as the metadata is in, before the groups
AppendRowEarly ==
    /\ pc \in {"groups", "append"}
    /\ rows' = Append(rows, data)
    /\ work' = Tail(work)
    /\ pc' = IF Tail(work) = <<>> THEN "return" ELSE "row"
    /\ data' = <<>>
    /\ template_vars' = <<>>
    /\ UNCHANGED <<spec, samplesheet_df, pipeline_ids, pipeline_id, strategy,
                   filtered_df, exc, outputs, call, ret>>

\* rows.append(data), and on to the next item of the loop
AppendRow ==
    /\ pc = "append"
    /\ rows' = Append(rows, data)
    /\ work' = Tail(work)
    /\ pc' = IF Tail(work) = <<>> THEN "return" ELSE "row"
    /\ data' = <<>>
    /\ template_vars' = <<>>
    /\ UNCHANGED <<spec, samplesheet_df, pipeline_ids, pipeline_id, strategy,
                   filtered_df, exc, outputs, call, ret>>

\* return pd.DataFrame(rows); main(), run without --output-dir, prints the
\* summary of the table and goes on to the next id
ReturnTable ==
    /\ pc = "return"
    /\ outputs' = Append(outputs,
                         [id |-> pipeline_id, ok |-> TRUE, table |-> rows])
    /\ pipeline_ids' = Tail(pipeline_ids)
    /\ pc' = IF Tail(pipeline_ids) = <<>> THEN "done" ELSE "main"
    /\ UNCHANGED <<spec, samplesheet_df, pipeline_id, strategy, filtered_df,
                   work, template_vars, data, rows, exc, call, ret>>

\* an exception that leaves main(): the ids not yet generated are dropped
HandleExceptionAbort ==
    /\ pc = "raise"
    /\ outputs' = Append(outputs,
                         [id |-> pipeline_id, ok |-> FALSE, table |-> <<>>])
    /\ pipeline_ids' = <<>>
    /\ pc' = "done"
    /\ UNCHANGED <<spec, samplesheet_df, pipeline_id, strategy, filtered_df,
                   work, template_vars, data, rows, exc, call, ret>>

\* main(): "except Exception as e": the pipeline has no table, the loop
\* goes on
HandleException ==
    /\ pc = "raise"
    /\ outputs' = Append(outputs,
                         [id |-> pipeline_id, ok |-> FALSE, table |-> <<>>])
    /\ pipeline_ids' = Tail(pipeline_ids)
    /\ pc' = IF Tail(pipeline_ids) = <<>> THEN "done" ELSE "main"
    /\ UNCHANGED <<spec, samplesheet_df, pipeline_id, strategy, filtered_df,
                   work, template_vars, data, rows, exc, call, ret>>

Next ==
    \/ GeneratePipeline
    \/ StandardBeginRow
    \/ StandardOrig
    \/ StandardIllum
    \/ StandardCombined
    \/ WideBeginGroup
    \/ WideOrig
    \/ WideIllum
    \/ WideCombined
    \/ Pipeline9BeginRow
    \/ Pipeline9EmitGroups
    \/ AppendRow
    \/ ReturnTable
    \/ HandleException

Spec == Init /\ [][Next]_vars

(***************************************************************************)
(* Properties of main() / generate_pipeline(), specification Spec          *)
(***************************************************************************)
\* the strategy the flags of a PipelineDefinition name
DispatchByFlags(pipeline) ==
    IF pipeline.synthetic_tiles THEN "synthetic_tile"
    ELSE IF pipeline.wide_format THEN "wide_format" ELSE "standard"

\* C1: the strategy is selected from the pipeline's flags alone -
\* synthetic_tiles gives Synthetic-Tile, otherwise wide_format gives
\* Wide-Format, otherwise Standard - whatever identifier the pipeline is
\* registered under.
C1_StrategyByFlags ==
    strategy # "none" => strategy = DispatchByFlags(Pipeline)

IsPerCycleName(name) ==
    Len(name) >= 4 /\ name[1] \in {"FileName_Cycle", "Frame_Cycle"}

CycleOfName(name) == StrToNat(<<name[2], name[3]>>)

ChannelOfName(name) == <<name[Len(name)]>>

RuleChannel == DnaOnlyCycle1[1][1]
RuleCycle == DnaOnlyCycle1[1][2][1][2]

\* the per-cycle columns of the rule's channel in a row
RuleColumns(d) ==
    {i \in 1..Len(d) :
        IsPerCycleName(d[i][1]) /\ ChannelOfName(d[i][1]) = RuleChannel}

\* C3: in a Wide-Format row, a group whose special rule gives channel X the
\* only_cycle k has the columns of X for cycle k only, in the combined group
\* and in the split groups alike, when the (well, site) has cycle k.
C3_SpecialRuleSparsity ==
    (pc = "return" /\ strategy = "wide_format"
        /\ WideBranch(Pipeline.columns) # "none") =>
        \A k \in 1..Len(rows) :
            /\ \A i \in RuleColumns(rows[k]) :
                    CycleOfName(rows[k][i][1]) = RuleCycle
            /\ RuleCycle \in
                    {c \in 1..9 : \E r \in 1..Len(GroupByWellSite(filtered_df)[k].rows) :
                        GroupByWellSite(filtered_df)[k].rows[r]["cycle"] = I(c)}
                  => RuleColumns(rows[k]) # {}

\* the column definitions with every expression replaced by the value ""
BlankExpressions(col_defs) ==
    [i \in 1..Len(col_defs) |->
        IF col_defs[i].expression # NoneV
        THEN Val(col_defs[i].name, EmptyStr) ELSE col_defs[i]]

BlankSpec ==
    [spec EXCEPT !.pipelines =
        [id \in DOMAIN @ |->
            [@[id] EXCEPT !.columns.metadata = BlankExpressions(@)]]]

\* the outcome of the running generate_pipeline call, once it has one
Outcome == IF pc = "return" THEN Ok(rows) ELSE Raise(exc)

\* two outcomes are the same: both values and equal, or the same exception
SameOutcome(a, b) == a.ok = b.ok /\ a.v = b.v

\* C8: on a sheet without a cycle column the expression int(cycle) fails on
\* every row; the call then ends exactly as it ends under the specification
\* whose expression columns hold the fixed value "": same rows, same cells,
\* and no exception of the expression leaves the call.
C8_ExpressionFailureIsBlank ==
    (pc \in {"return", "raise"} /\ "cycle" \notin samplesheet_df.columns) =>
        SameOutcome(Outcome,
                    GeneratePipelineResult(BlankSpec, samplesheet_df,
                                           pipeline_id))

C8_Witness ==
    /\ pc = "return" /\ "cycle" \notin samplesheet_df.columns
    /\ Len(rows) = 2
    /\ \A k \in 1..2 :
        /\ DictGet(rows[k], <<"Metadata_CycleNumber">>) = EmptyStr
        /\ Len(rows[k]) > Len(Pipeline.columns.metadata)

\* the rows of the sheet the pipeline's filter keeps, in sheet order
MatchingRows ==
    IF Pipeline.filter = <<>> THEN samplesheet_df.rows
    ELSE SelectSeq(samplesheet_df.rows,
                   LAMBDA r : r["arm"].v = <<Pipeline.filter[3]>>)

\* C9: the Standard strategy returns one row per sample row that satisfies
\* the filter, in the order of the sheet, each built from that sample row
\* alone; the other sample rows contribute no row and no value.
C9_StandardOneRowPerFilteredRow ==
    (pc = "return" /\ strategy = "standard") =>
        /\ Len(rows) = Len(MatchingRows)
        /\ \A k \in 1..Len(rows) :
              SameOutcome(Ok(rows[k]),
                          StandardRow(spec, Pipeline, MatchingRows[k],
                                      BaseOfRun))

C9_Witness ==
    /\ pc = "return" /\ strategy = "standard"
    /\ Pipeline.filter # <<>>
    /\ Len(samplesheet_df.rows) = 2 /\ Len(rows) = 1
    /\ samplesheet_df.rows[1]["arm"] = S(<<"painting">>)

IsOrigName(name) ==
    \E i \in 1..Len(name) : name[i] \in {"FileName_Orig", "Frame_Orig", "_Orig"}

IsIllumName(name) ==
    \E i \in 1..Len(name) :
        name[i] \in {"FileName_Illum", "Frame_Illum", "_Illum"}

OrigColumnsOf(d) == {i \in 1..Len(d) : IsOrigName(d[i][1])}
IllumColumnsOf(d) == {i \in 1..Len(d) : IsIllumName(d[i][1])}

\* a split run of the Standard or of the Wide-Format strategy
SplitRun ==
    \/ strategy = "standard" /\ StandardBranch(Pipeline.columns) = "split"
    \/ strategy = "wide_format" /\ WideBranch(Pipeline.columns) = "split"

\* the channels and the columns of the orig group of the running pipeline
OrigGroup ==
    IF strategy = "standard" THEN Pipeline.columns.per_channel_orig
    ELSE Pipeline.columns.per_cycle_per_channel_orig

\* the number of orig columns of the item under construction
OrigExpected ==
    Len(spec.channel_definitions[OrigGroup.channels]) * Len(OrigGroup.columns)
        * (IF strategy = "standard" THEN 1 ELSE Len(Cycles(Head(work).rows)))

\* the rank of an orig column: its cycle, then its channel's canonical place
OrigRank(name) ==
    100 * (IF IsPerCycleName(name) THEN CycleOfName(name) ELSE 0)
      + (CHOOSE p \in 1..Len(spec.channel_definitions[OrigGroup.channels]) :
            spec.channel_definitions[OrigGroup.channels][p]
                = ChannelOfName(name))

OrigBeforeIllum(d) ==
    /\ \A i \in OrigColumnsOf(d) \cup IllumColumnsOf(d) :
            i > Len(Pipeline.columns.metadata)
    /\ \A i \in OrigColumnsOf(d), j \in IllumColumnsOf(d) : i < j
    /\ \A i, j \in OrigColumnsOf(d) :
            i < j => OrigRank(d[i][1]) <= OrigRank(d[j][1])

MaxPieces == 3
MaxScopeVars == 2
MaxRowChannels == 3

\* main() is not running
MainIdle ==
    /\ spec = <<>> /\ samplesheet_df = <<>>
    /\ pipeline_ids = <<>> /\ pipeline_id = ""
    /\ strategy = "none" /\ filtered_df = <<>> /\ work = <<>>
    /\ template_vars = <<>> /\ data = <<>> /\ rows = <<>>
    /\ exc = "" /\ outputs = <<>>

\* the call returns r
Return(r) ==
    /\ pc = "call"
    /\ ret' = r
    /\ pc' = "returned"
    /\ UNCHANGED <<spec, samplesheet_df, pipeline_ids, pipeline_id, strategy,
                   filtered_df, work, template_vars, data, rows, exc,
                   outputs, call>>

RECURSIVE Concat(_)
Concat(seqs) == IF seqs = <<>> THEN <<>> ELSE Head(seqs) \o Concat(Tail(seqs))

\* the sequences of at most n distinct-keyed bindings out of `bindings`
Scopes(bindings, n) ==
    UNION {{f \in [1..k -> bindings] :
                \A i, j \in 1..k : i # j => f[i][1] # f[j][1]} : k \in 0..n}

\* ---- load_spec ----
\* the ColumnDefinition entries a document can hold
RawColumns ==
    {ColumnDefinition(name, source, pattern, value, expression) :
        name \in {<<>>, <<"Metadata_Plate">>},
        source \in {NoneV, S(<<"plate">>)},
        pattern \in {NoneV, S(Ph("plate"))},
        value \in {NoneV, I(0), S(<<"channel_index">>)},
        expression \in {NoneV, S(<<"site">>)}}

\* a JSON document: its top-level keys and what they hold
Documents ==
    {[sections |-> sections,
      body |-> LoadDataSpec("2",
                  PipelineDefinition("pipeline", <<>>,
                      PipelineColumns(<<col_def>>, <<>>), FALSE, FALSE,
                      NoneV))] :
        sections \in SUBSET RequiredSections, col_def \in RawColumns}

InitLoad ==
    /\ MainIdle
    /\ pc = "call"
    /\ \E doc \in Documents : call = [fn |-> "load_spec", doc |-> doc]
    /\ ret = NoRet

LoadSpecCall ==
    /\ call.fn = "load_spec"
    /\ Return(LoadSpec(call.doc))

NextLoad == LoadSpecCall

SpecLoad == InitLoad /\ [][NextLoad]_vars

\* ---- expand_column_name ----
ExpandPieces ==
    {<<"Cycle">>, Ph("cycle"), PhF("cycle"), Ph("channel"), PhF("channel"),
     Ph("tile"), PhF("tile")}

ExampleName == <<"Cycle">> \o PhF("cycle") \o <<"_">> \o Ph("channel")

ExampleVars == << <<"cycle", I(3)>>, <<"channel", S(<<"DNA">>)>> >>

Templates ==
    {ExampleName} \cup
    UNION {{Concat(f) : f \in [1..n -> ExpandPieces]} : n \in 0..MaxPieces}

ExpandBindings ==
    {<<"cycle", I(3)>>, <<"cycle", I(12)>>, <<"cycle", I(123)>>,
     <<"cycle", EmptyStr>>, <<"channel", S(<<"DNA">>)>>, <<"tile", I(2)>>}

InitExpand ==
    /\ MainIdle
    /\ pc = "call"
    /\ \E name \in Templates, tvars \in Scopes(ExpandBindings, MaxScopeVars) :
          call = [fn |-> "expand_column_name", name |-> name,
                  template_vars |-> tvars]
    /\ ret = NoRet

ExpandColumnNameCall ==
    /\ call.fn = "expand_column_name"
    /\ Return(ExpandColumnName(call.name, call.template_vars))

NextExpand == ExpandColumnNameCall

SpecExpand == InitExpand /\ [][NextExpand]_vars

\* ---- generate_column_value ----
ResolveColumns ==
    {ColumnDefinition(<<"Column">>, source, pattern, value, expression) :
        source \in {NoneV, S(<<"well">>), S(<<"site">>), S(<<"tile">>)},
        pattern \in {NoneV, S(Ph("well"))},
        value \in {NoneV, EmptyStr, I(0), I(7), S(<<"channel_index">>),
                   S(<<"tile">>), S(<<"DAPI">>)},
        expression \in {NoneV, S(<<"site">>), S(<<"int", "(", "well", ")">>),
                        S(<<"well", "+">>)}}

ResolveRows ==
    {Restrict(SampleRow("barcoding", "Plate1", "A1", 0, 1, <<"DNA">>), columns) :
        columns \in {{"well", "site"}, {"well"}, {}}}

ResolveBindings ==
    {<<"well", S(<<"B2">>)>>, <<"site", I(5)>>, <<"tile", I(2)>>,
     <<"channel_index", I(3)>>}

InitResolve ==
    /\ MainIdle
    /\ pc = "call"
    /\ \E col_def \in ResolveColumns, row \in ResolveRows,
          tvars \in Scopes(ResolveBindings, MaxScopeVars) :
          call = [fn |-> "generate_column_value", col_def |-> col_def,
                  row |-> row, template_vars |-> tvars]
    /\ ret = NoRet

GenerateColumnValueCall ==
    /\ call.fn = "generate_column_value"
    /\ Return(GenerateColumnValue(call.col_def, call.row, call.template_vars))

NextResolve == GenerateColumnValueCall

SpecResolve == InitResolve /\ [][NextResolve]_vars

\* ---- the channel lookup of the strategies ----
CanonicalChannels == << <<"DNA">>, <<"A">>, <<"C">>, <<"T">>, <<"G">> >>

\* " DNA" is the name a cell "A, DNA" holds after the comma
RowChannelNames == {"DNA", "A", "T", "G", "DAPI", " DNA"}

\* ",".join(names)
RECURSIVE Join(_)
Join(names) ==
    IF Len(names) <= 1 THEN names
    ELSE <<Head(names), ",">> \o Join(Tail(names))

\* sample rows by their channels cell: up to MaxRowChannels distinct names in
\* any order, and the row of a table without a channels column
ChannelRows ==
    {[x \in {} |-> NoneV]} \cup
    UNION {{[channels |-> S(Join(f))] :
                f \in {g \in [1..n -> RowChannelNames] :
                          \A i, j \in 1..n : i # j => g[i] # g[j]}} :
           n \in 0..MaxRowChannels}

InitChannel ==
    /\ MainIdle
    /\ pc = "call"
    /\ \E row \in ChannelRows, c \in 1..Len(CanonicalChannels) :
          call = [fn |-> "channel_index", row |-> row,
                  channels |-> CanonicalChannels,
                  channel |-> CanonicalChannels[c]]
    /\ ret = NoRet

ChannelIndexCall ==
    /\ call.fn = "channel_index"
    /\ Return(Ok(I(PassChannelIndex(TRUE, call.row, call.channels,
                                    call.channel))))

NextChannel == ChannelIndexCall

SpecChannel == InitChannel /\ [][NextChannel]_vars

(***************************************************************************)
(* Properties of the direct calls                                          *)
(***************************************************************************)
Returned(fn) == pc = "returned" /\ call.fn = fn

\* C2: load_spec succeeds only on documents whose every ColumnDefinition
\* has exactly one of source, pattern, value, expression; a definition with
\* none or with several of them makes the load fail.
C2_ExactlyOneMode ==
    (Returned("load_spec") /\ ret.ok) =>
        \A id \in DOMAIN call.doc.body.pipelines :
            \A col_def \in
                    ColumnDefsOf(call.doc.body.pipelines[id].columns) :
                ModesSet(col_def) = 1

\* n as two or more decimal digits
ZeroPad2(n) == IF n < 10 THEN <<"0">> \o NatToStr(n) ELSE NatToStr(n)

\* the text with, in one pass from the left, every placeholder of a variable
\* in scope replaced and everything else kept
RECURSIVE SinglePass(_, _)
SinglePass(t, tv) ==
    IF t = <<>> THEN <<>>
    ELSE IF /\ Len(t) >= 4 /\ t[1] = LB /\ t[3] = FMT /\ t[4] = RB
            /\ DictHas(tv, t[2])
         THEN ZeroPad2(DictGet(tv, t[2]).v)
                  \o SinglePass(SubSeq(t, 5, Len(t)), tv)
         ELSE IF Len(t) >= 3 /\ t[1] = LB /\ t[3] = RB /\ DictHas(tv, t[2])
              THEN PyStr(DictGet(tv, t[2]))
                       \o SinglePass(SubSeq(t, 4, Len(t)), tv)
              ELSE <<t[1]>> \o SinglePass(Tail(t), tv)

\* every {v:02d} of a variable in scope has an integer to format
FormattedAreIntegers(t, tv) ==
    \A i \in 1..(Len(t) - 3) :
        (t[i] = LB /\ t[i + 2] = FMT /\ t[i + 3] = RB /\ DictHas(tv, t[i + 1]))
            => DictGet(tv, t[i + 1]).t = "int"

\* C4: expand(template, scope) replaces every {v:02d} with v in scope by v's
\* integer value in at least two zero-padded digits, never truncated, and
\* every {v} with v in scope by v's text; placeholders of variables not in
\* scope stay verbatim and are no error.
\* expand("Cycle{cycle:02d}_{channel}", {cycle: 3, channel: "DNA"}) is
\* "Cycle03_DNA" and expand("{cycle:02d}", {cycle: 12}) is "12".
C4_ExpandSemantics ==
    Returned("expand_column_name") =>
        /\ FormattedAreIntegers(call.name, call.template_vars) =>
              SameOutcome(ret,
                          Ok(SinglePass(call.name, call.template_vars)))
        /\ (call.name = ExampleName /\ call.template_vars = ExampleVars) =>
              SameOutcome(ret, Ok(<<"Cycle", "0", "3", "_", "DNA">>))
        /\ (call.name = PhF("cycle")
                /\ call.template_vars = << <<"cycle", I(12)>> >>) =>
              SameOutcome(ret, Ok(<<"1", "2">>))

C4_Witness ==
    /\ Returned("expand_column_name")
    /\ call.name = ExampleName /\ call.template_vars = ExampleVars
    /\ ret = Ok(<<"Cycle", "0", "3", "_", "DNA">>)

\* the 0-based place of a channel in the text of a channels cell
PlaceInCell(cell, channel) ==
    ((CHOOSE i \in 1..Len(cell) : cell[i] = channel[1]) - 1) \div 2

PlaceInList(list, channel) ==
    (CHOOSE i \in 1..Len(list) : list[i] = channel) - 1

ListedInRow(row, channel) ==
    /\ "channels" \in DOMAIN row
    /\ \E i \in 1..Len(row["channels"].v) : row["channels"].v[i] = channel[1]

\* C5: the channel index of a channel is its 0-based place in the row's own
\* comma-separated channel list when the row lists it, otherwise its place
\* in the canonical list.  With the canonical list [DNA, A, C, T, G] and the
\* row "A,DNA,T", DNA has index 1 and G has index 4.
C5_ChannelIndex ==
    Returned("channel_index") =>
        /\ ret = Ok(I(IF ListedInRow(call.row, call.channel)
                      THEN PlaceInCell(call.row["channels"].v, call.channel)
                      ELSE PlaceInList(call.channels, call.channel)))
        /\ call.row = [channels |-> S(<<"A", ",", "DNA", ",", "T">>)] =>
              /\ call.channel = <<"DNA">> => ret = Ok(I(1))
              /\ call.channel = <<"G">> => ret = Ok(I(4))

C5_Witness ==
    /\ Returned("channel_index")
    /\ call.row = [channels |-> S(<<"A", ",", "DNA", ",", "T">>)]
    /\ call.channel = <<"DNA">>
    /\ ret = Ok(I(1))

OnlyMode(col_def, mode) ==
    \A f \in {"source", "pattern", "value", "expression"} :
        (col_def[f] # NoneV) <=> (f = mode)

\* C6: a source-mode column's value is the sample row's field of that name
\* when the row has it, otherwise the scope's variable of that name,
\* otherwise the empty string.
C6_SourceLookup ==
    (Returned("generate_column_value") /\ OnlyMode(call.col_def, "source")) =>
        ret = Ok(IF call.col_def.source.v[1] \in DOMAIN call.row
                 THEN call.row[call.col_def.source.v[1]]
                 ELSE IF DictHas(call.template_vars, call.col_def.source.v[1])
                      THEN DictGet(call.template_vars,
                                   call.col_def.source.v[1])
                      ELSE EmptyStr)

C6_Witness ==
    /\ Returned("generate_column_value")
    /\ OnlyMode(call.col_def, "source")
    /\ call.col_def.source = S(<<"site">>)
    /\ "site" \in DOMAIN call.row
    /\ DictHas(call.template_vars, "site")
    /\ ret = Ok(I(0))

\* C7: a value-mode column with the symbol channel_index gives the scope's
\* channel_index, 0 when the scope has none; with the symbol tile the
\* scope's tile, 1 when it has none; any other value, the integer 0
\* included, is returned as it is.
C7_ValueMode ==
    (Returned("generate_column_value") /\ OnlyMode(call.col_def, "value")) =>
        ret = Ok(IF call.col_def.value = S(<<"channel_index">>)
                 THEN (IF DictHas(call.template_vars, "channel_index")
                       THEN DictGet(call.template_vars, "channel_index")
                       ELSE I(0))
                 ELSE IF call.col_def.value = S(<<"tile">>)
                      THEN (IF DictHas(call.template_vars, "tile")
                            THEN DictGet(call.template_vars, "tile")
                            ELSE I(1))
                      ELSE call.col_def.value)

C7_Witness ==
    /\ Returned("generate_column_value")
    /\ OnlyMode(call.col_def, "value")
    /\ call.col_def.value = I(0)
    /\ ret = Ok(I(0))

\* the sections the data model of the document names
ModelSections == {"metadata", "channel_definitions", "pipelines"}

\* C19: a document that provides metadata, channel_definitions and pipelines
\* conforming to the data model (every ColumnDefinition named, with one
\* mode) loads; no further top-level section is needed.
C19_ThreeSectionsSuffice ==
    (/\ Returned("load_spec")
     /\ ModelSections \subseteq call.doc.sections
     /\ \A id \in DOMAIN call.doc.body.pipelines :
            \A col_def \in
                    ColumnDefsOf(call.doc.body.pipelines[id].columns) :
                col_def.name # <<>> /\ ModesSet(col_def) = 1)
        => ret.ok

(***************************************************************************)
(* main() over several pipelines: documents with three pipelines, run for  *)
(* one id of the command line or for all pipelines of the document         *)
(***************************************************************************)
DriverChannelDefinitions ==
    [barcoding |-> << <<"DNA">>, <<"A">>, <<"C">>, <<"T">>, <<"G">> >>,
     painting |-> << <<"DNA">>, <<"Phalloidin">> >>]

\* split per-cycle groups with PathName, FileName and Frame columns
PathOrigColumns ==
    << Pat(<<"PathName_Cycle">> \o PhF("cycle") \o <<"_Orig">>
               \o Ph("channel"),
           Ph("base_path") \o <<"/">> \o Ph("plate") \o <<"/">>
               \o Ph("acquisition_folder")),
       Pat(<<"FileName_Cycle">> \o PhF("cycle") \o <<"_Orig">>
               \o Ph("channel"), Ph("filename")),
       Val(<<"Frame_Cycle">> \o PhF("cycle") \o <<"_Orig">> \o Ph("channel"),
           S(<<"channel_index">>)) >>

PathIllumColumns ==
    << Pat(<<"PathName_Cycle">> \o PhF("cycle") \o <<"_Illum">>
               \o Ph("channel"),
           Ph("base_path") \o <<"/", "illum", "/">> \o Ph("plate")),
       Pat(<<"FileName_Cycle">> \o PhF("cycle") \o <<"_Illum">>
               \o Ph("channel"),
           Ph("plate") \o <<"_Cycle">> \o Ph("cycle") \o <<"_Illum">>
               \o Ph("channel") \o <<".npy">>) >>

\* the pipeline "2" of a document: Standard, by kind
DriverStandard ==
    [combined |-> ColumnSets.combined,
     split |-> ColumnSets.split,
     mixed |->
        PipelineColumns(MetadataColumns,
            [per_channel_orig |-> Group("painting", OrigColumns, <<>>),
             per_channel_illum |-> Group("barcoding", IllumColumns, <<>>)]),
     unknown |->
        PipelineColumns(MetadataColumns,
            [per_channel |-> Group("missing", CombinedColumns, <<>>)])]

\* the pipeline "6" of a document: Wide-Format, by kind
DriverWide ==
    [split |->
        PipelineColumns(MetadataColumns,
            [per_cycle_per_channel_orig |->
                Group("barcoding", PathOrigColumns, <<>>),
             per_cycle_per_channel_illum |->
                Group("barcoding", PathIllumColumns, <<>>)]),
     combined |-> ColumnSets.wide_combined,
     unknown |->
        PipelineColumns(MetadataColumns,
            [per_cycle_per_channel_orig |->
                Group("missing", PathOrigColumns, <<>>),
             per_cycle_per_channel_illum |->
                Group("missing", PathIllumColumns, <<>>)])]

\* the tiles_per_well of the pipeline "9" of a document, by kind
DriverTiles == [given |-> I(MaxTiles), zero |-> I(0), absent |-> NoneV]

\* the filter of the pipeline "6" of a document
DriverFilters == [barcoding |-> <<"arm", "==", "barcoding">>, all |-> <<>>]

\* a document with the pipelines "2", "6" and "9"
DriverDocument(standard, wide, filter, tiles) ==
    [metadata |-> [description |-> "model", version |-> "1",
                   base_path |-> S(<<"base">>)],
     channel_definitions |-> DriverChannelDefinitions,
     pipelines |->
        [id \in {"2", "6", "9"} |->
            IF id = "2"
            THEN PipelineDefinition("standard", <<>>, DriverStandard[standard],
                                    FALSE, FALSE, NoneV)
            ELSE IF id = "6"
                 THEN PipelineDefinition("wide", DriverFilters[filter],
                                         DriverWide[wide], TRUE, FALSE, NoneV)
                 ELSE PipelineDefinition("tiles", <<>>, ColumnSets.tiles,
                                         FALSE, TRUE, DriverTiles[tiles])]]

\* the document with barcoding_dna.cycles of its pipeline "9" set to cycles
WithDnaCycles(doc, cycles) ==
    [doc EXCEPT !.pipelines["9"].columns.barcoding_dna.cycles = cycles]

\* the document with one more metadata column in its pipeline "9"
WithTileMetadata(doc, col_def) ==
    [doc EXCEPT !.pipelines["9"].columns.metadata = Append(@, col_def)]

\* the documents of the model
DriverDocuments ==
    {DriverDocument("combined", "split", "barcoding", "given"),
     DriverDocument("combined", "split", "all", "given"),
     DriverDocument("split", "combined", "barcoding", "zero"),
     DriverDocument("mixed", "split", "barcoding", "given"),
     WithDnaCycles(DriverDocument("combined", "split", "barcoding", "given"),
                   <<1, 2>>),
     WithTileMetadata(
         DriverDocument("combined", "split", "barcoding", "given"),
         Src(<<"Metadata_Channels">>, "channels")),
     DriverDocument("combined", "unknown", "barcoding", "given"),
     DriverDocument("unknown", "unknown", "barcoding", "absent")}

\* "1" is no pipeline of any document
DriverIds == {"1", "2", "6", "9"}

\* pipeline_ids of main(): the id of --pipeline, or the keys of the document
\* in the order of the document, without the pipelines "4" and "8"
Requests(sp) ==
    {<<id>> : id \in DriverIds} \cup
    {f \in [1..Cardinality(DOMAIN sp.pipelines \ {"4", "8"})
                -> DOMAIN sp.pipelines \ {"4", "8"}] :
        \A i, j \in DOMAIN f : i # j => f[i] # f[j]}

\* the records of the samplesheet, in the order of the file
DriverRows ==
    <<SampleRow("barcoding", "Plate1", "A1", 0, 1,
                <<"DAPI", ",", "A", ",", "C", ",", "T", ",", "G">>),
      SampleRow("barcoding", "Plate1", "A1", 0, 2,
                <<"DAPI", ",", "A", ",", "C", ",", "T", ",", "G">>),
      SampleRow("painting", "Plate1", "B2", 0, 1,
                <<"DNA", ",", "Phalloidin">>)>>

\* the sample tables: up to MaxRows of the records, in the order of the file
DriverTables ==
    {[columns |-> SampleColumns,
      rows |-> [i \in 1..Cardinality(kept) |-> DriverRows[SortInts(kept)[i]]]] :
        kept \in {k \in SUBSET (1..Len(DriverRows)) : Cardinality(k) <= MaxRows}}

InitDriver ==
    /\ spec \in DriverDocuments
    /\ samplesheet_df \in DriverTables
    /\ pipeline_ids \in Requests(spec)
    /\ pipeline_id = ""
    /\ pc = "main"
    /\ strategy = "none"
    /\ filtered_df = <<>>
    /\ work = <<>>
    /\ template_vars = <<>>
    /\ data = <<>>
    /\ rows = <<>>
    /\ exc = ""
    /\ outputs = <<>>
    /\ CallIdle

SpecDriver == InitDriver /\ [][Next]_vars

(***************************************************************************)
(* C12: the Synthetic-Tile strategy                                        *)
(***************************************************************************)
TileRun == pc = "return" /\ strategy = "synthetic_tile"

\* the wells of the filtered rows
WellsOf(df_rows) == {df_rows[i]["well"] : i \in 1..Len(df_rows)}

\* the names of the barcoding columns of a fixed (cycle, channel) group, and
\* of the painting columns, written out
BarcodingNames(group) ==
    {<<"FileName_Cycle">> \o ZeroPad2(group.cycles[i]) \o <<"_">>
         \o group.channels[j] :
        i \in 1..Len(group.cycles), j \in 1..Len(group.channels)}

PaintingNames(group) ==
    {<<"FileName_Corr">> \o group.channels[j] : j \in 1..Len(group.channels)}

TileMetadataNames ==
    {<<"Metadata_Plate">>, <<"Metadata_Well">>, <<"Metadata_Site">>,
     <<"Metadata_CycleNumber">>}

\* the painting file of the reference channel names the well and the tile of
\* the row it is in
TileFile(well, tile) ==
    S(<<"Well_">> \o well.v \o <<"_Site_">> \o NatToStr(tile)
          \o <<"_Corr", "DNA">>)

TileFileOf(row) == DictGet(row, <<"FileName_Corr", "DNA">>)

\* the table has `n` rows per distinct well, with the tiles 1..n ascending,
\* and every row has the metadata, barcoding and painting columns
TilesTable(n) ==
    /\ Len(rows) = Cardinality(WellsOf(filtered_df)) * n
    /\ \A k \in 1..Len(rows) :
        /\ DictGet(rows[k], <<"Metadata_Site">>) = I(((k - 1) % n) + 1)
        /\ \E well \in WellsOf(filtered_df) :
              TileFileOf(rows[k]) = TileFile(well, ((k - 1) % n) + 1)
        /\ \A m \in 1..Len(rows), well \in WellsOf(filtered_df) :
              (/\ (k - 1) \div n # (m - 1) \div n
               /\ TileFileOf(rows[k]) = TileFile(well, ((k - 1) % n) + 1))
                  => TileFileOf(rows[m]) # TileFile(well, ((m - 1) % n) + 1)
        /\ \A name \in TileMetadataNames
                \cup BarcodingNames(Pipeline.columns.barcoding_channels)
                \cup PaintingNames(Pipeline.columns.painting_channels) :
              DictHas(rows[k], name)

\* C12: with tiles_per_well = N, N >= 1, the Synthetic-Tile strategy returns
\* for every distinct well of the filtered rows exactly N rows with the tile
\* indexes 1..N ascending, each with the metadata columns, the barcoding
\* columns of every (cycle, channel) pair of the fixed lists and the painting
\* columns of every painting channel; a tiles_per_well that is absent or 0
\* gives the 4 tiles of the default.
C12_TilesPerWell ==
    TileRun =>
        IF Pipeline.tiles_per_well.t = "int" /\ Pipeline.tiles_per_well.v >= 1
        THEN TilesTable(Pipeline.tiles_per_well.v)
        ELSE TilesTable(DefaultTilesPerWell)

\* two wells, each with its tiles_per_well rows
C12_Witness ==
    /\ TileRun
    /\ Pipeline.tiles_per_well = I(MaxTiles)
    /\ Cardinality(WellsOf(filtered_df)) = 2
    /\ Len(rows) = 2 * MaxTiles

\* C12 as worded: whatever integer tiles_per_well is, that many rows per well
C12_AnyTilesPerWell ==
    (TileRun /\ Pipeline.tiles_per_well.t = "int") =>
        Len(rows) = Cardinality(WellsOf(filtered_df))
                        * Pipeline.tiles_per_well.v

(***************************************************************************)
(* C13: no sample row satisfies the filter                                 *)
(***************************************************************************)
\* generate_pipeline is at work on, or has just ended, a known pipeline none
\* of whose sample rows satisfies the filter
EmptyRun ==
    /\ pipeline_id \in DOMAIN spec.pipelines
    /\ MatchingRows = <<>>

\* C13: for every pipeline and strategy, when no sample row satisfies the
\* filter, generate_pipeline runs no loop body, raises no error and returns
\* the table of zero rows.
C13_EmptyFilterReturnsEmptyTable ==
    EmptyRun =>
        /\ pc \in {"return", "done", "main"}
        /\ rows = <<>>
        /\ pc = "done" =>
              outputs[Len(outputs)]
                  = [id |-> pipeline_id, ok |-> TRUE, table |-> <<>>]

\* a sheet with rows, none of them kept, under the Wide-Format strategy
C13_Witness ==
    /\ EmptyRun
    /\ pc = "return"
    /\ strategy = "wide_format"
    /\ samplesheet_df.rows # <<>>

(***************************************************************************)
(* C20: the frame index of a (row, channel)                                *)
(***************************************************************************)
\* the frame index of `channel` on the sample row `row`
FrameIndex(row, canonical, channel) ==
    IF ListedInRow(row, channel)
    THEN PlaceInCell(row["channels"].v, channel)
    ELSE PlaceInList(canonical, channel)

\* the Frame column of a channel in the Standard branches
StandardFrameName(branch, channel) ==
    IF branch = "split" THEN <<"Frame_Orig">> \o channel
    ELSE <<"Frame_">> \o channel

\* the Frame column of a (cycle, channel) in the Wide-Format branches
WideFrameName(branch, cycle, channel) ==
    IF branch = "split"
    THEN <<"Frame_Cycle">> \o ZeroPad2(cycle) \o <<"_Orig">> \o channel
    ELSE <<"Frame_Cycle">> \o ZeroPad2(cycle) \o <<"_">> \o channel

\* the sample rows of a group that are of the cycle
RowsOfCycle(group_rows, cycle) ==
    SelectSeq(group_rows, LAMBDA r : r["cycle"].v = cycle)

StandardFrames ==
    \A k \in 1..Len(rows) :
        \A channel \in {ChannelDefinitions.painting[i] :
                            i \in 1..Len(ChannelDefinitions.painting)} :
            LET name == StandardFrameName(StandardBranch(Pipeline.columns),
                                          channel)
            IN  /\ DictHas(rows[k], name)
                /\ DictGet(rows[k], name)
                     = I(FrameIndex(MatchingRows[k],
                                    ChannelDefinitions.painting, channel))

WideFrames ==
    \A k \in 1..Len(rows) :
        LET group_rows == GroupByWellSite(MatchingRows)[k].rows
        IN  \A i \in 1..Len(group_rows) :
              \A channel \in {ChannelDefinitions.barcoding[j] :
                                j \in 1..Len(ChannelDefinitions.barcoding)} :
                LET cycle == group_rows[i]["cycle"].v
                    name == WideFrameName(WideBranch(Pipeline.columns), cycle,
                                          channel)
                IN  /\ WideBranch(Pipeline.columns) = "split"
                          => DictHas(rows[k], name)
                    /\ DictHas(rows[k], name) =>
                          DictGet(rows[k], name)
                            = I(FrameIndex(RowsOfCycle(group_rows, cycle)[1],
                                           ChannelDefinitions.barcoding,
                                           channel))

\* C20: the frame index is computed anew for every (row, channel): in
\* Wide-Format the orig index of a (cycle, channel) is the channel's index on
\* the sample row of that cycle, in Standard on the row being emitted; it
\* never comes from a previous row, from another cycle's row or from the
\* first row of the group.
C20_FrameIndexPerRowAndChannel ==
    (pipeline_id \in DOMAIN spec.pipelines /\ rows # <<>>) =>
        /\ (strategy = "standard" /\ StandardBranch(Pipeline.columns) # "none")
              => StandardFrames
        /\ (strategy = "wide_format" /\ WideBranch(Pipeline.columns) # "none")
              => WideFrames

\* one group with two cycles whose rows list DNA at different places
C20_Witness ==
    /\ pc = "return"
    /\ strategy = "wide_format"
    /\ WideBranch(Pipeline.columns) = "split"
    /\ Len(rows) = 1
    /\ DictGetOr(rows[1], <<"Frame_Cycle", "0", "1", "_Orig", "DNA">>, NoneV)
          = I(0)
    /\ DictGetOr(rows[1], <<"Frame_Cycle", "0", "2", "_Orig", "DNA">>, NoneV)
          = I(2)

(***************************************************************************)
(* C11: the rows of the Wide-Format strategy                               *)
(***************************************************************************)
WideSplitRun ==
    /\ pc = "return"
    /\ strategy = "wide_format"
    /\ Pipeline.columns = DriverWide.split

\* the (well, site) pairs of the rows
SitesOf(df_rows) ==
    {<<df_rows[i]["well"], df_rows[i]["site"]>> : i \in 1..Len(df_rows)}

\* the cycles of the rows of one (well, site)
CyclesAt(df_rows, well, site) ==
    {df_rows[i]["cycle"].v :
        i \in {j \in 1..Len(df_rows) :
                  df_rows[j]["well"] = well /\ df_rows[j]["site"] = site}}

NamesOf(col_defs) == {col_defs[i].name : i \in 1..Len(col_defs)}

\* the column names of a group for the cycles and the channels: every
\* definition's name with {cycle:02d} and {channel} filled in
GroupNames(col_defs, cycles, channels) ==
    {SinglePass(name, << <<"cycle", I(cycle)>>,
                         <<"channel", S(channels[j])>> >>) :
        name \in NamesOf(col_defs), cycle \in cycles,
        j \in 1..Len(channels)}

\* the column names of the row of one (well, site)
WideRowNames(well, site) ==
    NamesOf(Pipeline.columns.metadata)
      \cup GroupNames(PathOrigColumns \o PathIllumColumns,
                      CyclesAt(MatchingRows, well, site),
                      DriverChannelDefinitions.barcoding)

KeysOf(row) == {row[i][1] : i \in 1..Len(row)}

ExampleSheet ==
    <<SampleRow("barcoding", "Plate1", "A1", 0, 1,
                <<"DAPI", ",", "A", ",", "C", ",", "T", ",", "G">>),
      SampleRow("barcoding", "Plate1", "A1", 0, 2,
                <<"DAPI", ",", "A", ",", "C", ",", "T", ",", "G">>)>>

\* C11: the Wide-Format strategy returns exactly one row per distinct
\* (well, site) of the filtered rows; the row holds every metadata column
\* once and, for every cycle of the group and every canonical channel, every
\* orig and every illum column, its name expanded with the cycle in two
\* digits and the channel.  Two rows of well A1, site 0, cycles 1 and 2, with
\* the canonical list [DNA, A, C, T, G], give one row with the 10 columns
\* PathName_Cycle0{1,2}_Orig*, the Illum columns and Frame_Cycle01_OrigDNA = 0.
C11_WideOneRowPerSite ==
    WideSplitRun =>
        /\ Len(rows) = Cardinality(SitesOf(MatchingRows))
        /\ \A site \in SitesOf(MatchingRows) :
              \E k \in 1..Len(rows) :
                  /\ DictGet(rows[k], <<"Metadata_Well">>) = site[1]
                  /\ DictGet(rows[k], <<"Metadata_Site">>) = site[2]
                  /\ KeysOf(rows[k]) = WideRowNames(site[1], site[2])
                  /\ Len(rows[k]) = Cardinality(KeysOf(rows[k]))
        /\ MatchingRows = ExampleSheet =>
              /\ Len(rows) = 1
              /\ Cardinality({name \in KeysOf(rows[1]) :
                                 /\ name[1] = "PathName_Cycle"
                                 /\ name[4] = "_Orig"}) = 10
              /\ Cardinality({name \in KeysOf(rows[1]) :
                                 /\ name[1] = "PathName_Cycle"
                                 /\ name[4] = "_Illum"}) = 10
              /\ DictGet(rows[1], <<"Frame_Cycle", "0", "1", "_Orig", "DNA">>)
                    = I(0)

\* the example: one row for the two sample rows of well A1, site 0
C11_Witness ==
    /\ WideSplitRun
    /\ MatchingRows = ExampleSheet
    /\ Len(rows) = 1

\* two (well, site) groups, two rows
C11_WitnessTwoSites ==
    /\ WideSplitRun
    /\ Cardinality(SitesOf(MatchingRows)) = 2
    /\ Len(rows) = 2

(***************************************************************************)
(* C17: the rows of a table are complete                                   *)
(***************************************************************************)
\* the column names of a per-channel group: every definition's name with
\* {channel} filled in
ChannelNames(col_defs, channels) ==
    {SinglePass(name, << <<"channel", S(channels[j])>> >>) :
        name \in NamesOf(col_defs), j \in 1..Len(channels)}

\* the column names of a per-cycle group with special rules
RuleNames(group, cycles, channels) ==
    {SinglePass(name, << <<"cycle", I(pair[1])>>,
                         <<"channel", S(channels[pair[2]])>> >>) :
        name \in NamesOf(group.columns),
        pair \in {q \in cycles \X (1..Len(channels)) :
                     ~SkipByRule(group.special_rules, channels[q[2]], q[1])}}

SetOf(seq) == {seq[i] : i \in 1..Len(seq)}

StandardKeys(cols) ==
    NamesOf(cols.metadata) \cup
    (CASE StandardBranch(cols) = "split" ->
            ChannelNames(cols.per_channel_orig.columns
                             \o cols.per_channel_illum.columns,
                spec.channel_definitions[cols.per_channel_orig.channels])
       [] StandardBranch(cols) = "combined" ->
            ChannelNames(cols.per_channel.columns,
                spec.channel_definitions[cols.per_channel.channels])
       [] OTHER -> {})

WideKeys(cols, cycles) ==
    NamesOf(cols.metadata) \cup
    (CASE WideBranch(cols) = "split" ->
            GroupNames(cols.per_cycle_per_channel_orig.columns
                           \o cols.per_cycle_per_channel_illum.columns,
                cycles,
                spec.channel_definitions[
                    cols.per_cycle_per_channel_orig.channels])
       [] WideBranch(cols) = "combined" ->
            RuleNames(cols.per_cycle_per_channel, cycles,
                spec.channel_definitions[cols.per_cycle_per_channel.channels])
       [] OTHER -> {})

TileKeys(cols) ==
    NamesOf(cols.metadata)
      \cup (IF IsGroup(cols.barcoding_channels)
            THEN GroupNames(cols.barcoding_channels.columns,
                            SetOf(cols.barcoding_channels.cycles),
                            cols.barcoding_channels.channels)
            ELSE {})
      \cup (IF IsGroup(cols.barcoding_dna)
            THEN GroupNames(cols.barcoding_dna.columns,
                            SetOf(cols.barcoding_dna.cycles), << <<"DNA">> >>)
            ELSE {})
      \cup (IF IsGroup(cols.painting_channels)
            THEN ChannelNames(cols.painting_channels.columns,
                              cols.painting_channels.channels)
            ELSE {})

\* the columns a finished row of the k-th item of the strategy's loop has
CompleteKeys(k) ==
    CASE strategy = "standard" -> StandardKeys(Pipeline.columns)
      [] strategy = "wide_format" ->
            WideKeys(Pipeline.columns,
                     SetOf(Cycles(GroupByWellSite(MatchingRows)[k].rows)))
      [] OTHER -> TileKeys(Pipeline.columns)

IsCell(value) == value.t \in {"int", "str", "none"}

\* C17: every row of a table is complete: whenever a row is in the table, and
\* so from the moment it is appended, it has every metadata column and every
\* column of every group of its strategy, each with a cell; a value that
\* could not be resolved is the cell "", never a missing column.
C17_RowsAreComplete ==
    (pipeline_id \in DOMAIN spec.pipelines) =>
        /\ \A k \in 1..Len(rows) :
              /\ KeysOf(rows[k]) = CompleteKeys(k)
              /\ \A i \in 1..Len(rows[k]) : IsCell(rows[k][i][2])
        /\ \A n \in 1..Len(outputs) :
              outputs[n].ok => outputs[n].table = rows

\* a returned row whose expression could not be evaluated: the cell is ""
C17_Witness ==
    /\ pc = "done"
    /\ outputs # <<>>
    /\ outputs[1].ok
    /\ outputs[1].table # <<>>
    /\ StandardBranch(Pipeline.columns) = "split"
    /\ strategy = "standard"
    /\ DictGetOr(outputs[1].table[1], <<"Metadata_CycleNumber">>, NoneV)
          = EmptyStr

(***************************************************************************)
(* C15, C16: several pipelines in one run of main()                        *)
(***************************************************************************)
\* main() keeps running until its loop over the ids is over: weak fairness
\* of Next, written with the enabling condition of Next, pc # "done"
KeepsRunning == []<>(pc = "done") \/ []<><<Next>>_vars

SpecDriverFair == InitDriver /\ [][Next]_vars /\ KeepsRunning

\* generate_pipeline for one id, on its own
Alone(id) == GeneratePipelineResult(spec, samplesheet_df, id)

\* a lookup error: get_pipeline or get_channels raised ValueError
LookupFails(id) == ~Alone(id).ok /\ Alone(id).v = "ValueError"

\* the output main() recorded for a pipeline is the outcome of that pipeline
\* on its own
AsAlone(out) ==
    /\ out.ok = Alone(out.id).ok
    /\ out.ok => out.table = Alone(out.id).v

\* one step of the loop of main(): the id at the head gets its output, the
\* other ids are left to do
OnePipelineEnds ==
    (outputs' # outputs \/ pipeline_ids' # pipeline_ids) =>
        /\ pipeline_ids # <<>>
        /\ pipeline_ids' = Tail(pipeline_ids)
        /\ Len(outputs') = Len(outputs) + 1
        /\ SubSeq(outputs', 1, Len(outputs)) = outputs
        /\ outputs'[Len(outputs')].id = Head(pipeline_ids)

\* C15: when main() generates several pipelines and one of them fails with
\* a lookup error (unknown id, unknown channel set), main() goes on: every
\* pipeline of the run gets its turn, each failure costs only its own table,
\* and every other pipeline's table is the one it has when generated on its
\* own.
C15_LookupFailureIsIsolated ==
    /\ [][OnePipelineEnds]_vars
    /\ []((pc = "done" /\ \E m \in 1..Len(outputs) : ~outputs[m].ok)
              => \A n \in 1..Len(outputs) : AsAlone(outputs[n]))
    /\ <>(pc = "done" /\ pipeline_ids = <<>>)

\* a pipeline that fails on a lookup, and after it one that has its table
C15_Witness ==
    /\ pc = "done"
    /\ Len(outputs) = 3
    /\ LookupFails(outputs[1].id)
    /\ ~outputs[1].ok
    /\ outputs[2].ok
    /\ outputs[2].table # <<>>

\* C16: generation is deterministic: what generate_pipeline returns is
\* fixed by the specification, the sample table and the id - the same rows in
\* the same order, the same columns in the same order, the same cells, or
\* the same failure - whatever main() generated before, so two runs on the
\* same specification and table return identical tables.
C16_SameInputSameTable ==
    (pc \in {"return", "raise"}) => SameOutcome(Outcome, Alone(pipeline_id))

\* a table with rows returned after another pipeline's table
C16_Witness ==
    /\ pc = "return"
    /\ rows # <<>>
    /\ outputs # <<>>
    /\ outputs[1].ok
    /\ outputs[1].table # <<>>
    /\ outputs[1].table # rows

(***************************************************************************)
(* C14: get_pipeline, get_channels and generate_pipeline called directly   *)
(***************************************************************************)
\* documents with one pipeline, with and without a filter, and with any of
\* the channel sets defined
LookupSpecs ==
    {[metadata |-> [description |-> "model", version |-> "1",
                    base_path |-> S(<<"base">>)],
      channel_definitions |-> [k \in keys |-> ChannelDefinitions[k]],
      pipelines |->
          (id :> PipelineDefinition("pipeline", filter, ColumnSets.combined,
                                    FALSE, FALSE, NoneV))] :
        id \in PipelineIds, filter \in Filters,
        keys \in SUBSET DOMAIN ChannelDefinitions}

LookupIds == PipelineIds \cup {"1", ""}

LookupNames == DOMAIN ChannelDefinitions \cup {"missing", ""}

\* an empty table, a table of one row, and a table without the column the
\* filters ask for
LookupTables ==
    {[columns |-> SampleColumns, rows |-> <<>>],
     [columns |-> SampleColumns,
      rows |-> <<SampleRow("painting", "Plate2", "B2", 0, 1,
                           <<"DNA", ",", "Phalloidin">>)>>],
     [columns |-> SampleColumns \ {"arm"},
      rows |-> <<Restrict(SampleRow("painting", "Plate2", "B2", 0, 1,
                                    <<"DNA", ",", "Phalloidin">>),
                          SampleColumns \ {"arm"})>>]}

InitLookup ==
    /\ MainIdle
    /\ pc = "call"
    /\ \/ \E sp \in LookupSpecs, id \in LookupIds :
              call = [fn |-> "get_pipeline", spec |-> sp, id |-> id]
       \/ \E sp \in LookupSpecs, name \in LookupNames :
              call = [fn |-> "get_channels", spec |-> sp, name |-> name]
       \/ \E sp \in LookupSpecs, id \in LookupIds, df \in LookupTables :
              call = [fn |-> "generate_pipeline", spec |-> sp, id |-> id,
                      df |-> df]
    /\ ret = NoRet

GetPipelineCall ==
    /\ call.fn = "get_pipeline"
    /\ Return(GetPipeline(call.spec, call.id))

GetChannelsCall ==
    /\ call.fn = "get_channels"
    /\ Return(GetChannels(call.spec, call.name))

GeneratePipelineCall ==
    /\ call.fn = "generate_pipeline"
    /\ Return(GeneratePipelineResult(call.spec, call.df, call.id))

NextLookup ==
    \/ GetPipelineCall
    \/ GetChannelsCall
    \/ GeneratePipelineCall

SpecLookup == InitLookup /\ [][NextLookup]_vars

\* C14: get_pipeline(id) fails with the unknown-pipeline error for every id
\* that is no key of the document's pipelines, get_channels(name) fails with
\* the unknown-channel-set error for every name that is no key of
\* channel_definitions, and generate_pipeline for an unknown id fails with
\* the error of get_pipeline, before the table is filtered, and returns no
\* table.  (Both errors are Python's ValueError.)
C14_UnknownLookupsFail ==
    /\ (Returned("get_pipeline") /\ call.id \notin DOMAIN call.spec.pipelines)
          => SameOutcome(ret, Raise("ValueError"))
    /\ (Returned("get_channels")
            /\ call.name \notin DOMAIN call.spec.channel_definitions)
          => SameOutcome(ret, Raise("ValueError"))
    /\ (Returned("generate_pipeline")
            /\ call.id \notin DOMAIN call.spec.pipelines)
          => SameOutcome(ret, Raise("ValueError"))

\* generate_pipeline for an unknown id on a table that the filter of the
\* document's pipeline cannot be applied to
C14_Witness ==
    /\ Returned("generate_pipeline")
    /\ call.id \notin DOMAIN call.spec.pipelines
    /\ "arm" \notin call.df.columns
    /\ \E id \in DOMAIN call.spec.pipelines :
          call.spec.pipelines[id].filter # <<>>
    /\ ~ret.ok

(***************************************************************************)
(* The acceptance comparators: compare_csvs of load_data_generate.py and   *)
(* the loop of compare_csvs_normalized.py.  A table is its columns in      *)
(* order and its rows, each a function from the columns to texts.          *)
(***************************************************************************)
MaxCompareRows == 2

\* the symbols of the texts of the tables, in the order of their characters
SymbolOrder ==
    <<"/", "A1", "B2", "Metadata_", "PathName", "Well", "_Orig", "p", "q">>

SymbolRank(x) == CHOOSE i \in 1..Len(SymbolOrder) : SymbolOrder[i] = x

\* a < b on str
RECURSIVE TextLess(_, _)
TextLess(a, b) ==
    IF b = <<>> THEN FALSE
    ELSE IF a = <<>> THEN TRUE
    ELSE IF a[1] # b[1] THEN SymbolRank(a[1]) < SymbolRank(b[1])
    ELSE TextLess(Tail(a), Tail(b))

\* s.rstrip("/")
RECURSIVE RStrip(_)
RStrip(s) ==
    IF s # <<>> /\ s[Len(s)] = "/" THEN RStrip(SubSeq(s, 1, Len(s) - 1))
    ELSE s

\* normalize_paths_in_df: rstrip("/") on every column with "PathName" in
\* its name
NormalizePathsInDf(df) ==
    [columns |-> df.columns,
     rows |-> [i \in 1..Len(df.rows) |->
                  [c \in DOMAIN df.rows[i] |->
                      IF Contains(c, <<"PathName">>) THEN RStrip(df.rows[i][c])
                      ELSE df.rows[i][c]]]]

\* the order of sort_values(by=by) on two rows: the first column of `by`
\* on which they differ decides
RECURSIVE RowLess(_, _, _)
RowLess(r1, r2, by) ==
    IF by = <<>> THEN FALSE
    ELSE IF r1[by[1]] # r2[by[1]] THEN TextLess(r1[by[1]], r2[by[1]])
    ELSE RowLess(r1, r2, Tail(by))

\* row into the sorted rows, after the rows that are not greater
RECURSIVE InsertRow(_, _, _)
InsertRow(sorted, row, by) ==
    IF sorted = <<>> THEN <<row>>
    ELSE IF RowLess(row, Head(sorted), by) THEN <<row>> \o sorted
    ELSE <<Head(sorted)>> \o InsertRow(Tail(sorted), row, by)

\* df.sort_values(by=by): the rows in ascending order, stable
RECURSIVE SortValues(_, _)
SortValues(recs, by) ==
    IF recs = <<>> THEN <<>>
    ELSE InsertRow(SortValues(SubSeq(recs, 1, Len(recs) - 1), by),
                   recs[Len(recs)], by)

\* df.sort_index(axis=1).sort_values(by=list(df.columns))
\* .reset_index(drop=True): the sort keys are the columns of df in the order
\* df has them before sort_index; the order of the columns of the result is
\* not kept in the model, assert_frame_equal(check_like=True) ignores it
SortedFrame(df) ==
    [columns |-> df.columns, rows |-> SortValues(df.rows, df.columns)]

ColumnSet(df) == {df.columns[i] : i \in 1..Len(df.columns)}

\* df.shape
Shape(df) == <<Len(df.rows), Len(df.columns)>>

\* pd.testing.assert_frame_equal(left, right, check_like=True) passes: same
\* shape, same column labels, and row by row the same cells
FrameEqual(left, right) ==
    /\ Shape(left) = Shape(right)
    /\ ColumnSet(left) = ColumnSet(right)
    /\ \A i \in 1..Len(left.rows) : left.rows[i] = right.rows[i]

\* compare_csvs(ref_file, gen_df), the reference file read: TRUE for MATCH
CompareCsvs(ref_df, gen_df) ==
    LET ref == NormalizePathsInDf(ref_df)
        gen == NormalizePathsInDf(gen_df)
    IN  IF Shape(ref) # Shape(gen) THEN FALSE
        ELSE IF ColumnSet(ref) # ColumnSet(gen) THEN FALSE
        ELSE FrameEqual(SortedFrame(ref), SortedFrame(gen))

\* compare_csvs_normalized.py: "Filter reference to only include wells that
\* exist in generated"
FilterWells(ref_df, gen_df) ==
    IF /\ <<"Metadata_", "Well">> \in ColumnSet(ref_df)
       /\ <<"Metadata_", "Well">> \in ColumnSet(gen_df)
    THEN [columns |-> ref_df.columns,
          rows |-> SelectSeq(ref_df.rows, LAMBDA r :
                      \E i \in 1..Len(gen_df.rows) :
                          gen_df.rows[i][<<"Metadata_", "Well">>]
                              = r[<<"Metadata_", "Well">>])]
    ELSE ref_df

\* compare_csvs_normalized.py, one pass of its loop: TRUE for MATCH
CompareNormalized(ref_df, gen_df) ==
    FrameEqual(SortedFrame(NormalizePathsInDf(FilterWells(ref_df, gen_df))),
               SortedFrame(NormalizePathsInDf(gen_df)))

\* the tables of the model: a well column and a path column in either
\* order, or the well column alone, with up to MaxCompareRows rows
CompareColumns ==
    {<< <<"Metadata_", "Well">>, <<"PathName", "_Orig">> >>,
     << <<"PathName", "_Orig">>, <<"Metadata_", "Well">> >>,
     << <<"Metadata_", "Well">> >>}

CompareCells(column) ==
    IF column = <<"Metadata_", "Well">> THEN {<<"A1">>, <<"B2">>}
    ELSE {<<"p">>, <<"p", "/">>, <<"q">>}

CompareRows(columns) ==
    {row \in [{columns[i] : i \in 1..Len(columns)} ->
                 {<<"A1">>, <<"B2">>, <<"p">>, <<"p", "/">>, <<"q">>}] :
        \A c \in DOMAIN row : row[c] \in CompareCells(c)}

CompareTables ==
    UNION {{[columns |-> columns, rows |-> recs] :
                recs \in UNION {[1..n -> CompareRows(columns)] :
                                   n \in 0..MaxCompareRows}} :
           columns \in CompareColumns}

InitCompare ==
    /\ MainIdle
    /\ pc = "call"
    /\ \E fn \in {"compare_csvs", "compare_csvs_normalized"},
          ref_df \in CompareTables, gen_df \in CompareTables :
              call = [fn |-> fn, ref_df |-> ref_df, gen_df |-> gen_df]
    /\ ret = NoRet

CompareCsvsCall ==
    /\ call.fn = "compare_csvs"
    /\ Return(Ok(CompareCsvs(call.ref_df, call.gen_df)))

CompareNormalizedCall ==
    /\ call.fn = "compare_csvs_normalized"
    /\ Return(Ok(CompareNormalized(call.ref_df, call.gen_df)))

NextCompare ==
    \/ CompareCsvsCall
    \/ CompareNormalizedCall

SpecCompare == InitCompare /\ [][NextCompare]_vars

\* how often the row is in the rows
CountOf(recs, row) == Cardinality({i \in 1..Len(recs) : recs[i] = row})

\* the same set of columns and, the trailing slashes of the PathName columns
\* removed, the same multiset of rows
SameTable(ref_df, gen_df) ==
    /\ ColumnSet(ref_df) = ColumnSet(gen_df)
    /\ Len(ref_df.rows) = Len(gen_df.rows)
    /\ \A i \in 1..Len(ref_df.rows) :
          CountOf(NormalizePathsInDf(ref_df).rows,
                  NormalizePathsInDf(ref_df).rows[i])
            = CountOf(NormalizePathsInDf(gen_df).rows,
                      NormalizePathsInDf(ref_df).rows[i])

\* C18: the comparator reports a match exactly when the generated and the
\* reference table have the same set of columns and, after the trailing
\* slashes of the PathName columns are removed, the same multiset of rows,
\* whatever the order of the rows and of the columns of either table.
C18_MatchIffSameTable ==
    (Returned("compare_csvs") \/ Returned("compare_csvs_normalized")) =>
        (ret.v <=> SameTable(call.ref_df, call.gen_df))

\* C18 for compare_csvs alone
C18_CompareCsvsMatchIffSameTable ==
    Returned("compare_csvs") =>
        (ret.v <=> SameTable(call.ref_df, call.gen_df))

(***************************************************************************)
(* C21: the channels of the per-channel groups of the Standard strategy    *)
(***************************************************************************)
\* the per-channel groups a PipelineColumns holds
PerChannelGroups(cols) ==
    {f \in {"per_channel", "per_channel_orig", "per_channel_illum"} :
        IsGroup(cols[f])}

\* the columns of a row that are columns of the group, for whatever channel
GroupColumnsIn(row, group) ==
    KeysOf(row) \cap
        UNION {ChannelNames(group.columns, spec.channel_definitions[name]) :
                  name \in DOMAIN spec.channel_definitions}

\* C21: in a table of the Standard strategy every row holds, for each of the
\* groups per_channel, per_channel_orig and per_channel_illum the pipeline
\* has, the columns of that group for exactly the channels of the channel
\* set the group itself references, also for the channels the sample row
\* does not list.
C21_GroupsUseOwnChannels ==
    (pc = "return" /\ strategy = "standard") =>
        \A k \in 1..Len(rows) :
            \A f \in PerChannelGroups(Pipeline.columns) :
                GroupColumnsIn(rows[k], Pipeline.columns[f])
                    = ChannelNames(Pipeline.columns[f].columns,
                          spec.channel_definitions[
                              Pipeline.columns[f].channels])

(***************************************************************************)
(* C22: the reference-channel block of the Synthetic-Tile strategy         *)
(***************************************************************************)
\* the columns of the barcoding_dna block for the cycles
DnaNames(cols, cycles) ==
    GroupNames(cols.barcoding_dna.columns, cycles, << <<"DNA">> >>)

\* the cycles the groups of the pipeline name
GroupCycles(cols) ==
    SetOf(cols.barcoding_dna.cycles)
      \cup (IF IsGroup(cols.barcoding_channels)
            THEN SetOf(cols.barcoding_channels.cycles) ELSE {})

\* C22: every row of a Synthetic-Tile table holds the columns of the
\* reference-channel block expanded with cycle 1 and channel DNA, and holds
\* no column of the block for any other cycle.
C22_DnaBlockCycle1Only ==
    (TileRun /\ IsGroup(Pipeline.columns.barcoding_dna)) =>
        \A k \in 1..Len(rows) :
            /\ DnaNames(Pipeline.columns, {1}) \subseteq KeysOf(rows[k])
            /\ KeysOf(rows[k])
                 \cap DnaNames(Pipeline.columns,
                               GroupCycles(Pipeline.columns) \ {1}) = {}

\* C22, amended: every row of a Synthetic-Tile table holds the columns of
\* the reference-channel block once for each cycle listed in
\* barcoding_dna.cycles, expanded with that cycle and channel DNA, and no
\* column of the block for any other cycle; with the list [1] that is
\* cycle 1 only.
C22_DnaBlockPerListedCycle ==
    (TileRun /\ IsGroup(Pipeline.columns.barcoding_dna)) =>
        \A k \in 1..Len(rows) :
            /\ KeysOf(rows[k]) \cap DnaNames(Pipeline.columns,
                                             GroupCycles(Pipeline.columns))
                  = DnaNames(Pipeline.columns,
                             SetOf(Pipeline.columns.barcoding_dna.cycles))
            /\ Len(rows[k]) = Cardinality(KeysOf(rows[k]))
            /\ Pipeline.columns.barcoding_dna.cycles = <<1>> =>
                  KeysOf(rows[k]) \cap DnaNames(Pipeline.columns,
                                                GroupCycles(Pipeline.columns))
                      = DnaNames(Pipeline.columns, {1})

\* a table whose rows hold the block for the cycles 1 and 2
C22_Witness ==
    /\ TileRun
    /\ Pipeline.columns.barcoding_dna.cycles = <<1, 2>>
    /\ rows # <<>>
    /\ DictHas(rows[1], <<"FileName_Cycle", "0", "1", "_", "DNA">>)
    /\ DictHas(rows[1], <<"FileName_Cycle", "0", "2", "_", "DNA">>)

\* a table whose rows hold the block for cycle 1 only, next to barcoding
\* columns of the cycles 1 and 2
C22_WitnessFirstCycle ==
    /\ TileRun
    /\ Pipeline.columns.barcoding_dna.cycles = <<1>>
    /\ rows # <<>>
    /\ DictHas(rows[1], <<"FileName_Cycle", "0", "1", "_", "DNA">>)
    /\ DictHas(rows[1], <<"FileName_Cycle", "0", "2", "_", "A">>)

(***************************************************************************)
(* C23: the Synthetic-Tile strategy and the channel lists of the rows      *)
(***************************************************************************)
\* the texts a channels cell can hold
ChannelCells ==
    {S(<<"DAPI", ",", "A", ",", "C", ",", "T", ",", "G">>),
     S(<<"DNA", ",", "Phalloidin">>),
     S(<<"Phalloidin", ",", "DNA">>)}

\* the sample tables that differ from df in the channels cells only
ChannelVariants(df) ==
    {[df EXCEPT !.rows =
          [i \in 1..Len(df.rows) |->
              [df.rows[i] EXCEPT !["channels"] = cells[i]]]] :
        cells \in [1..Len(df.rows) -> ChannelCells]}

\* the pipeline definition names the field channels: in its filter, as the
\* source of a column or in the expression of a column
NamesChannels(pipeline) ==
    \/ pipeline.filter # <<>> /\ pipeline.filter[1] = "channels"
    \/ \E col_def \in ColumnDefsOf(pipeline.columns) :
          \/ col_def.source = S(<<"channels">>)
          \/ /\ col_def.expression.t = "str"
             /\ \E i \in 1..Len(col_def.expression.v) :
                    col_def.expression.v[i] = "channels"

\* the running Synthetic-Tile call ends as it ends on every table that
\* differs in the channels cells only
SameOnChannelVariants ==
    \A alt \in ChannelVariants(samplesheet_df) :
        SameOutcome(Outcome, GeneratePipelineResult(spec, alt, pipeline_id))

\* C23: the table of the Synthetic-Tile strategy does not depend on the
\* channels cells of the sample rows: for the same pipeline definition, two
\* sample tables that differ only in the channels cells give the same table.
C23_IndependentOfChannels ==
    (strategy = "synthetic_tile" /\ pc \in {"return", "raise"}) =>
        SameOnChannelVariants

\* C23, amended: for a pipeline definition that does not itself name the
\* field channels (in its filter, as the source of a column or in an
\* expression), two sample tables that differ only in the channels cells
\* give the same Synthetic-Tile table.
C23_IndependentUnlessNamed ==
    (/\ strategy = "synthetic_tile" /\ pc \in {"return", "raise"}
     /\ ~NamesChannels(Pipeline)) =>
        SameOnChannelVariants

\* a table with rows, of a sheet with two rows and so nine variants
C23_Witness ==
    /\ strategy = "synthetic_tile" /\ pc = "return"
    /\ ~NamesChannels(Pipeline)
    /\ Len(samplesheet_df.rows) = 2
    /\ rows # <<>>
    /\ Cardinality(ChannelVariants(samplesheet_df)) = 9

(***************************************************************************)
(* C24: generate_column_value called on pattern-mode columns               *)
(***************************************************************************)
InitPattern ==
    /\ MainIdle
    /\ pc = "call"
    /\ \E pattern \in Templates, row \in ResolveRows,
          tvars \in Scopes(ExpandBindings, MaxScopeVars) :
          call = [fn |-> "generate_column_value",
                  col_def |-> Pat(<<"Column">>, pattern),
                  row |-> row, template_vars |-> tvars]
    /\ ret = NoRet

SpecPattern == InitPattern /\ [][NextResolve]_vars

\* the result of expand_column_name as a cell: the text, or the exception
NameAsCell(r) == IF r.ok THEN Ok(S(r.v)) ELSE r

\* C24: for every non-empty template and every scope, the value of a
\* pattern-mode column whose pattern is the template is the text
\* expand_column_name gives for the template as a column name (and the call
\* fails exactly when that expansion fails): names and pattern values are
\* expanded alike.
C24_PatternExpandsAsName ==
    (/\ Returned("generate_column_value")
     /\ OnlyMode(call.col_def, "pattern")
     /\ call.col_def.pattern.v # <<>>) =>
        SameOutcome(ret,
                    NameAsCell(ExpandColumnName(call.col_def.pattern.v,
                                                call.template_vars)))

\* the pattern "Cycle{cycle:02d}_{channel}" with cycle 3 and channel DNA
C24_Witness ==
    /\ Returned("generate_column_value")
    /\ call.col_def.pattern = S(ExampleName)
    /\ call.template_vars = ExampleVars
    /\ ret = Ok(S(<<"Cycle", "0", "3", "_", "DNA">>))

(***************************************************************************)
(* C25: generate_pipeline called by several callers at once.  The calls    *)
(* share the generator (its spec) and the sample table; pipeline, rows,    *)
(* filtered_df, template_vars and data are locals of each call.            *)
(***************************************************************************)
Callers == {"a", "b"}

\* the locals of one call of generate_pipeline(id, samplesheet_df)
Locals(id) ==
    [id |-> id, pc |-> "start", strategy |-> "none", filtered_df |-> <<>>,
     work |-> <<>>, rows |-> <<>>, exc |-> ""]

InitConcurrent ==
    /\ spec \in DriverDocuments
    /\ samplesheet_df \in DriverTables
    /\ pipeline_ids = <<>> /\ pipeline_id = ""
    /\ pc = "callers"
    /\ strategy = "none" /\ filtered_df = <<>> /\ work = <<>>
    /\ template_vars = <<>> /\ data = <<>> /\ rows = <<>>
    /\ exc = "" /\ outputs = <<>>
    /\ \E ids \in [Callers -> DriverIds] :
          call = [c \in Callers |-> Locals(ids[c])]
    /\ ret = NoRet

\* the call of caller c after its step gave r: the new locals, or the
\* exception that ends the call
CallAfter(c, r) ==
    /\ call' = [call EXCEPT ![c] =
                   IF r.ok THEN r.v
                   ELSE [@ EXCEPT !.pc = "raise", !.exc = r.v]]
    /\ UNCHANGED <<spec, samplesheet_df, pipeline_ids, pipeline_id, pc,
                   strategy, filtered_df, work, template_vars, data, rows,
                   exc, outputs, ret>>

\* generate_pipeline of caller c: get_pipeline, the filter, rows = [] and the
\* choice of the strategy
CallGenerate(c) ==
    /\ pc = "callers" /\ call[c].pc = "start"
    /\ CallAfter(c,
          Then(Prepare(spec, samplesheet_df, call[c].id), LAMBDA prepared :
              Ok([id |-> call[c].id,
                  pc |-> IF prepared.work = <<>> THEN "return" ELSE "row",
                  strategy |-> prepared.strategy,
                  filtered_df |-> prepared.filtered_df,
                  work |-> prepared.work, rows |-> <<>>, exc |-> ""])))

\* one pass of the strategy's loop whose rows.append lands in the rows of
\* every call
CallRowSharedRows(c) ==
    /\ pc = "callers" /\ call[c].pc = "row"
    /\ LET r == RowOf(spec, samplesheet_df, call[c].id,
                      [strategy |-> call[c].strategy,
                       filtered_df |-> call[c].filtered_df,
                       work |-> call[c].work], Head(call[c].work))
       IN  /\ call' =
                [k \in Callers |->
                    IF ~r.ok
                    THEN (IF k = c
                          THEN [call[k] EXCEPT !.pc = "raise", !.exc = r.v]
                          ELSE call[k])
                    ELSE IF k = c
                         THEN [call[k] EXCEPT
                                  !.rows = Append(@, r.v),
                                  !.work = Tail(@),
                                  !.pc = IF Tail(call[c].work) = <<>>
                                         THEN "return" ELSE "row"]
                         ELSE [call[k] EXCEPT !.rows = Append(@, r.v)]]
           /\ UNCHANGED <<spec, samplesheet_df, pipeline_ids, pipeline_id, pc,
                          strategy, filtered_df, work, template_vars, data,
                          rows, exc, outputs, ret>>

\* one pass of the loop body of caller c's strategy, with its rows.append
CallRow(c) ==
    /\ pc = "callers" /\ call[c].pc = "row"
    /\ CallAfter(c,
          Then(RowOf(spec, samplesheet_df, call[c].id,
                     [strategy |-> call[c].strategy,
                      filtered_df |-> call[c].filtered_df,
                      work |-> call[c].work], Head(call[c].work)),
               LAMBDA d :
                  Ok([call[c] EXCEPT
                         !.rows = Append(@, d),
                         !.work = Tail(@),
                         !.pc = IF Tail(call[c].work) = <<>>
                                THEN "return" ELSE "row"])))

NextConcurrent == \E c \in Callers : CallGenerate(c) \/ CallRow(c)

SpecConcurrent == InitConcurrent /\ [][NextConcurrent]_vars

\* what the call of caller c returned or raised
CallOutcome(c) ==
    IF call[c].pc = "return" THEN Ok(call[c].rows) ELSE Raise(call[c].exc)

\* C25: pipelines share no state: no step of a call changes the
\* specification or the sample table, and whatever the other callers do
\* between its steps, a call of generate_pipeline ends with the table (or
\* the error) the pipeline has when it is generated alone.
C25_CallsShareNoState ==
    /\ [][spec' = spec /\ samplesheet_df' = samplesheet_df]_vars
    /\ [](pc = "callers" =>
            \A c \in Callers :
                call[c].pc \in {"return", "raise"} =>
                    SameOutcome(CallOutcome(c), Alone(call[c].id)))

\* caller a has its table while caller b, of another pipeline, is between
\* two rows of its loop
C25_Witness ==
    /\ pc = "callers"
    /\ call["a"].pc = "return" /\ call["a"].rows # <<>>
    /\ call["b"].pc = "row" /\ call["b"].rows # <<>>
    /\ call["a"].id # call["b"].id

(***************************************************************************)
(* C26: the well and the tile of a Synthetic-Tile row                      *)
(***************************************************************************)
\* the metadata columns of the pipeline whose source is the field
SourcedNames(cols, field) ==
    {cols.metadata[i].name :
        i \in {j \in 1..Len(cols.metadata) :
                  cols.metadata[j].source = S(<<field>>)}}

\* C26: the k-th row of a Synthetic-Tile table is the row of the k-th
\* (well, tile) of the two loops, and it identifies both: every metadata
\* column with source "well" holds that well and every metadata column with
\* source "tile" holds that tile, for every well of the filtered rows and not
\* only for the well of the first row.
C26_RowIdentifiesWellAndTile ==
    TileRun =>
        \A k \in 1..Len(rows) :
            LET item == WellTiles(filtered_df, TilesPerWell(Pipeline))[k]
            IN  /\ \A name \in SourcedNames(Pipeline.columns, "well") :
                      DictGet(rows[k], name) = item.well
                /\ \A name \in SourcedNames(Pipeline.columns, "tile") :
                      DictGet(rows[k], name) = I(item.tile)

(***************************************************************************)
(* C27: expansion on the scopes of the strategies                          *)
(***************************************************************************)
\* C27: expand_column_name returns a text and raises nothing, for every
\* template and every scope a strategy builds - also when cycle is the ""
\* that _generate_standard puts into the scope for a sample row without the
\* field, and the template holds the formatted placeholder of cycle.
C27_ExpansionNeverRaises ==
    Returned("expand_column_name") => ret.ok

(***************************************************************************)
(* C28: generate_column_value called on columns with several modes         *)
(***************************************************************************)
\* column definitions with any of the four modes absent, empty or set
ModeColumns ==
    {ColumnDefinition(<<"Column">>, source, pattern, value, expression) :
        source \in {NoneV, EmptyStr, S(<<"well">>)},
        pattern \in {NoneV, EmptyStr, S(Ph("site"))},
        value \in {NoneV, EmptyStr, I(0), S(<<"DAPI">>)},
        expression \in {NoneV, EmptyStr, S(<<"site">>), S(<<"well", "+">>)}}

InitModes ==
    /\ MainIdle
    /\ pc = "call"
    /\ \E col_def \in ModeColumns, row \in ResolveRows,
          tvars \in Scopes(ResolveBindings, MaxScopeVars) :
          call = [fn |-> "generate_column_value", col_def |-> col_def,
                  row |-> row, template_vars |-> tvars]
    /\ ret = NoRet

SpecModes == InitModes /\ [][NextResolve]_vars

\* the mode is set: anything but None for value, anything but None and ""
\* for source, pattern and expression
ModeIsSet(col_def, mode) ==
    /\ col_def[mode] # NoneV
    /\ mode # "value" => col_def[mode] # EmptyStr

ModeOrder == <<"source", "pattern", "value", "expression">>

\* the first mode of the order that is set, "none" when there is none
ChosenMode(col_def) ==
    IF \E i \in 1..4 : ModeIsSet(col_def, ModeOrder[i])
    THEN ModeOrder[CHOOSE i \in 1..4 :
                       /\ ModeIsSet(col_def, ModeOrder[i])
                       /\ \A k \in 1..(i - 1) : ~ModeIsSet(col_def, ModeOrder[k])]
    ELSE "none"

\* the value of one mode of the column, the other modes left aside
ValueOfMode(mode, col_def, row, tvars) ==
    CASE mode = "source" -> Ok(SourceValue(col_def.source.v, row, tvars))
      [] mode = "pattern" ->
            NameAsCell(ExpandColumnName(col_def.pattern.v, tvars))
      [] mode = "value" -> Ok(FixedValue(col_def.value, tvars))
      [] mode = "expression" ->
            ExpressionValue(col_def.expression.v, row, tvars)
      [] OTHER -> Ok(EmptyStr)

\* C28: of the modes a ColumnDefinition sets the resolver uses exactly one,
\* the first that is set in the order source, pattern, value, expression; a
\* source, pattern or expression that is "" counts as not set (a value that
\* is "" or 0 counts as set), and with no mode set the result is "".
C28_ModePrecedence ==
    Returned("generate_column_value") =>
        SameOutcome(ret,
                    ValueOfMode(ChosenMode(call.col_def), call.col_def,
                                call.row, call.template_vars))

\* all four modes set: the value is the row's field named by source
C28_Witness ==
    /\ Returned("generate_column_value")
    /\ call.col_def.source = S(<<"well">>)
    /\ call.col_def.pattern = S(Ph("site"))
    /\ call.col_def.value = S(<<"DAPI">>)
    /\ call.col_def.expression = S(<<"site">>)
    /\ "well" \in DOMAIN call.row
    /\ ret = Ok(S(<<"A1">>))

\* source and pattern "", no value: the expression is used
C28_WitnessEmptyModes ==
    /\ Returned("generate_column_value")
    /\ call.col_def.source = EmptyStr
    /\ call.col_def.pattern = EmptyStr
    /\ call.col_def.value = NoneV
    /\ call.col_def.expression = S(<<"site">>)
    /\ "site" \in DOMAIN call.row
    /\ ret = Ok(I(0))

(***************************************************************************)
(* C29: the sample rows behind one Wide-Format row                         *)
(***************************************************************************)
\* the sample rows _generate_wide_format reads for the per-cycle columns of
\* one group: cycle_row of every cycle of the group
CycleRowsUsed(group) ==
    {CycleRow(group.rows, group.rows[i]["cycle"].v) :
        i \in 1..Len(group.rows)}

\* C29: while a Wide-Format row is being built, the plate in its scope and
\* the plate of every sample row read for its per-cycle columns are one and
\* the same plate.
C29_WideRowOnePlate ==
    (strategy = "wide_format" /\ pc \in {"groups", "illum", "append"}) =>
        \A cycle_row \in CycleRowsUsed(Head(work)) :
            cycle_row["plate"] = DictGet(template_vars, "plate")

(***************************************************************************)
(* C30: the frame indexes of one output row                                *)
(***************************************************************************)
\* the two Frame columns, when the row has both, hold different indexes
FramesDiffer(d, name1, name2) ==
    (DictHas(d, name1) /\ DictHas(d, name2)) =>
        DictGet(d, name1) # DictGet(d, name2)

\* the pairs of channels compared on a sample row: every pair, or the pairs
\* the row's own list names both or neither of
ComparedOn(row, channel1, channel2, every) ==
    /\ channel1 # channel2
    /\ every \/ (ListedInRow(row, channel1) <=> ListedInRow(row, channel2))

ChannelsOf(list) == {list[i] : i \in 1..Len(list)}

StandardFramesDistinct(every) ==
    \A k \in 1..Len(rows) :
        \A channel1, channel2 \in ChannelsOf(ChannelDefinitions.painting) :
            ComparedOn(MatchingRows[k], channel1, channel2, every) =>
                FramesDiffer(rows[k],
                    StandardFrameName(StandardBranch(Pipeline.columns),
                                      channel1),
                    StandardFrameName(StandardBranch(Pipeline.columns),
                                      channel2))

WideFramesDistinct(every) ==
    \A k \in 1..Len(rows) :
        LET group_rows == GroupByWellSite(MatchingRows)[k].rows
        IN  \A i \in 1..Len(group_rows) :
              \A channel1, channel2 \in
                      ChannelsOf(ChannelDefinitions.barcoding) :
                LET cycle == group_rows[i]["cycle"].v
                IN  ComparedOn(RowsOfCycle(group_rows, cycle)[1],
                               channel1, channel2, every) =>
                        FramesDiffer(rows[k],
                            WideFrameName(WideBranch(Pipeline.columns), cycle,
                                          channel1),
                            WideFrameName(WideBranch(Pipeline.columns), cycle,
                                          channel2))

FramesDistinct(every) ==
    (pipeline_id \in DOMAIN spec.pipelines /\ rows # <<>>) =>
        /\ (strategy = "standard" /\ StandardBranch(Pipeline.columns) # "none")
              => StandardFramesDistinct(every)
        /\ (strategy = "wide_format" /\ WideBranch(Pipeline.columns) # "none")
              => WideFramesDistinct(every)

\* C30: within one output row the frame indexes of two distinct channels of
\* the canonical list are distinct: no two Frame columns of the same orig
\* group and sample row (in Wide-Format, of the same cycle) hold the same
\* index, whatever the row's own channel list is.
C30_FramesDistinct == FramesDistinct(TRUE)

\* C30 as the code has it: the frame indexes of two distinct channels of the
\* canonical list are distinct when the sample row's own channel list names
\* both channels or neither of them.
C30_FramesDistinctWhenListedAlike == FramesDistinct(FALSE)

\* a Wide-Format row from the sample row listing "A,C,DNA": three frames
C30_Witness ==
    /\ pc = "return"
    /\ strategy = "wide_format"
    /\ WideBranch(Pipeline.columns) = "split"
    /\ Len(rows) = 1
    /\ DictGetOr(rows[1], <<"Frame_Cycle", "0", "2", "_Orig", "A">>, NoneV)
          = I(0)
    /\ DictGetOr(rows[1], <<"Frame_Cycle", "0", "2", "_Orig", "C">>, NoneV)
          = I(1)
    /\ DictGetOr(rows[1], <<"Frame_Cycle", "0", "2", "_Orig", "DNA">>, NoneV)
          = I(2)

====
